---- MODULE Spec2Model ----
(***************************************************************************)
(* Model of the instalearn reader: the text chunker (src/utils/chunker.js),*)
(* the file checks and the text of PDF files (src/utils/textParser.js and  *)
(* pdfParser.js), the IndexedDB store (src/db/indexedDB.js) and the        *)
(* application on top (App, Home, Reader, SettingsPanel).                  *)
(*                                                                         *)
(* A JavaScript string is a sequence of characters; a character is a       *)
(* one-character TLA+ string ("a", " ", "\n").  A JavaScript value is a    *)
(* record [type, str, num] so that values of different types compare.      *)
(***************************************************************************)
EXTENDS Integers, Sequences, FiniteSets, TLC

VARIABLES
    text,        \* the first argument handed to chunkText (a JS value)
    options,     \* the second argument handed to chunkText
    chunks,      \* the array returned by the last chunkText call
    sentences,   \* the array returned by the last splitIntoSentences call
    stats,       \* the object returned by the last getChunkStats call
    statsArg,    \* the argument of the last getChunkStats call
    pc,          \* which call of the pipeline has been made
    pdf,         \* the loop variables of extractTextFromPDF and what it returned
    bookmarks,   \* the records of the 'bookmarks' object store
    calls,       \* the toggleBookmark calls made so far, in the order they began
    nextId,      \* the number of ids crypto.randomUUID has handed out
    documents,   \* the records of the 'documents' object store
    progress,    \* the records of the 'progress' object store
    imports,     \* the handleFileSelect calls made so far, in the order they began
    deletions,   \* the handleDelete calls made so far, in the order they began
    listed,      \* App's documents state: the list Home shows
    reloads,     \* the loadDocuments calls that have not set the list yet
    reader,      \* App's view, the document handed to Reader, and Reader's state
    saves,       \* the saveProgress calls that have not written yet, oldest first
    opens,       \* the handleDocumentSelect calls awaiting getProgress, oldest first
    lookups      \* the reads of the bookmarks index Reader awaits, oldest first

chunkerVars == <<text, options, chunks, sentences, stats, statsArg, pc, pdf>>
storeVars == <<bookmarks, calls, nextId>>
appVars == <<documents, progress, imports, deletions, listed, reloads, reader, saves,
            opens, lookups>>
vars == <<text, options, chunks, sentences, stats, statsArg, pc, pdf, bookmarks, calls, nextId,
          documents, progress, imports, deletions, listed, reloads, reader, saves,
          opens, lookups>>

(***************************************************************************)
(* JavaScript values                                                       *)
(***************************************************************************)
JSUndefined == [type |-> "undefined", str |-> <<>>, num |-> 0]
JSNull == [type |-> "null", str |-> <<>>, num |-> 0]
JSStr(s) == [type |-> "string", str |-> s, num |-> 0]
JSNum(n) == [type |-> "number", str |-> <<>>, num |-> n]
JSArr(a) == [type |-> "object", str |-> <<>>, num |-> 0, items |-> a]

\* !v : the values JavaScript treats as false
Falsy(v) ==
    \/ v.type \in {"undefined", "null"}
    \/ v.type = "string" /\ v.str = <<>>
    \/ v.type = "number" /\ v.num = 0

(***************************************************************************)
(* Character classes of the regular expressions                            *)
(***************************************************************************)
\* A string is the sequence of its UTF-16 code units; a code unit that has no
\* escape is written with its number, "U+00A0" for the no-break space.
\* \s, and what String.prototype.trim strips: tab, line feed, vertical tab,
\* form feed, carriage return, the space separators of Unicode, the line and
\* paragraph separators and the byte order mark
WhiteSpace ==
    {" ", "\t", "\n", "U+000B", "\f", "\r", "U+00A0", "U+1680",
     "U+2000", "U+2001", "U+2002", "U+2003", "U+2004", "U+2005", "U+2006", "U+2007",
     "U+2008", "U+2009", "U+200A", "U+2028", "U+2029", "U+202F", "U+205F", "U+3000",
     "U+FEFF"}
\* what "." does not match, and where ^ and $ match under the m flag
LineTerminators == {"\n", "\r", "U+2028", "U+2029"}
\* [A-Z]
UpperCase == {"A", "B", "C", "D", "E", "F", "G", "H", "I", "J", "K", "L", "M",
              "N", "O", "P", "Q", "R", "S", "T", "U", "V", "W", "X", "Y", "Z"}

(***************************************************************************)
(* String methods                                                          *)
(***************************************************************************)
RECURSIVE FirstNonWs(_, _)
FirstNonWs(s, i) ==
    IF i > Len(s) \/ s[i] \notin WhiteSpace THEN i ELSE FirstNonWs(s, i + 1)

RECURSIVE LastNonWs(_, _)
LastNonWs(s, i) ==
    IF i < 1 \/ s[i] \notin WhiteSpace THEN i ELSE LastNonWs(s, i - 1)

\* s.trim()
Trim(s) == SubSeq(s, FirstNonWs(s, 1), LastNonWs(s, Len(s)))

\* the positions 1..Len(s), in order
Positions(s) == [i \in 1..Len(s) |-> i]

\* s.replace(/\r\n/g, '\n'): the "\r" of every "\r\n" goes
ReplaceCRLF(s) ==
    LET keep == SelectSeq(Positions(s),
                          LAMBDA i : ~(s[i] = "\r" /\ i < Len(s) /\ s[i + 1] = "\n"))
    IN  [k \in 1..Len(keep) |-> s[keep[k]]]

\* s.replace(/\s+/g, ' '): the first character of every whitespace run becomes
\* a space, the rest of the run goes
CollapseWhitespace(s) ==
    LET keep == SelectSeq(Positions(s),
                          LAMBDA i : ~(s[i] \in WhiteSpace /\ i > 1 /\ s[i - 1] \in WhiteSpace))
    IN  [k \in 1..Len(keep) |-> IF s[keep[k]] \in WhiteSpace THEN " " ELSE s[keep[k]]]

\* s.split(sep) for a one-character separator: the pieces between the
\* separators, so "" gives [""]
Split(s, sep) ==
    LET at == SelectSeq(Positions(s), LAMBDA i : s[i] = sep)
    IN  [k \in 1..(Len(at) + 1) |->
            SubSeq(s, (IF k = 1 THEN 1 ELSE at[k - 1] + 1),
                      (IF k > Len(at) THEN Len(s) ELSE at[k] - 1))]

RECURSIVE JoinRange(_, _, _, _)
\* a[lo], sep, ..., sep, a[hi], joined half by half
JoinRange(a, sep, lo, hi) ==
    IF lo > hi THEN <<>>
    ELSE IF lo = hi THEN a[lo]
    ELSE JoinRange(a, sep, lo, (lo + hi) \div 2) \o sep
         \o JoinRange(a, sep, (lo + hi) \div 2 + 1, hi)

\* a.join(sep)
Join(a, sep) == JoinRange(a, sep, 1, Len(a))

RECURSIVE Flatten(_)
\* the concatenation of a sequence of strings
Flatten(a) == IF a = <<>> THEN <<>> ELSE Head(a) \o Flatten(Tail(a))

RECURSIVE Loop(_, _, _, _)
\* a for loop: the loop variables st after at most n iterations Step, stopping
\* once the loop condition fails (Done); the iterations are run half by half
Loop(Step(_), Done(_), st, n) ==
    IF n = 0 \/ Done(st) THEN st
    ELSE IF n = 1 THEN Step(st)
    ELSE LET half == Loop(Step, Done, st, n \div 2)
         IN  IF Done(half) THEN half ELSE Loop(Step, Done, half, n - n \div 2)

\* w.endsWith(suffix)
EndsWith(w, suffix) ==
    /\ Len(w) >= Len(suffix)
    /\ SubSeq(w, Len(w) - Len(suffix) + 1, Len(w)) = suffix

\* s.split(/\s+/): the pieces between the whitespace runs, so "" gives [""] and
\* leading or trailing whitespace gives an empty piece
SplitWhitespace(s) ==
    LET first == SelectSeq(Positions(s),
                           LAMBDA i : s[i] \in WhiteSpace /\ (i = 1 \/ s[i - 1] \notin WhiteSpace))
        last == SelectSeq(Positions(s),
                          LAMBDA i : s[i] \in WhiteSpace
                                     /\ (i = Len(s) \/ s[i + 1] \notin WhiteSpace))
    IN  [k \in 1..(Len(first) + 1) |->
            SubSeq(s, (IF k = 1 THEN 1 ELSE last[k - 1] + 1),
                      (IF k > Len(first) THEN Len(s) ELSE first[k] - 1))]

(***************************************************************************)
(* chunker.js                                                              *)
(***************************************************************************)
MAX_WORDS == 50

\* how far splitLongSentence looks back for a natural break
LOOK_BACK == 10

\* countWords(text)
countWords(t) ==
    IF t = <<>> THEN 0
    ELSE Len(SelectSeq(SplitWhitespace(t), LAMBDA word : Len(word) > 0))

\* /^(Mr|Mrs|Ms|Dr|Prof|Sr|Jr|vs|etc|i\.e|e\.g)\.$/
Abbreviations ==
    { <<"M", "r", ".">>, <<"M", "r", "s", ".">>, <<"M", "s", ".">>,
      <<"D", "r", ".">>, <<"P", "r", "o", "f", ".">>, <<"S", "r", ".">>,
      <<"J", "r", ".">>, <<"v", "s", ".">>, <<"e", "t", "c", ".">>,
      <<"i", ".", "e", ".">>, <<"e", ".", "g", ".">> }

\* mutant: the abbreviation test left out of the sentence-end condition
isAbbreviationNever(word) == FALSE

isAbbreviation(word) == word \in Abbreviations

\* ['.', '!', '?'].includes(words[i].slice(-1))
isEndPunctuation(word) == word # <<>> /\ word[Len(word)] \in {".", "!", "?"}

\* mutant: any next word taken for the start of a sentence
nextStartsWithCapitalAny(words, i) == i < Len(words) /\ words[i + 1] # <<>>

\* nextWord && /^[A-Z]/.test(nextWord), nextWord = words[i + 1]
nextStartsWithCapital(words, i) ==
    /\ i < Len(words)
    /\ words[i + 1] # <<>>
    /\ words[i + 1][1] \in UpperCase

\* the condition under which word i closes the current sentence
endsSentence(words, i) ==
    /\ isEndPunctuation(words[i])
    /\ ~isAbbreviation(words[i])
    /\ (nextStartsWithCapital(words, i) \/ i = Len(words))

\* one iteration of the for loop of splitIntoSentences on its variables
\* st = [i, current, sentences]
sentenceStep(words, st) ==
    LET current == st.current \o (IF st.current # <<>> THEN <<" ">> ELSE <<>>)
                   \o words[st.i]
    IN  IF endsSentence(words, st.i)
        THEN [i |-> st.i + 1, current |-> <<>>,
              sentences |-> Append(st.sentences, Trim(current))]
        ELSE [i |-> st.i + 1, current |-> current, sentences |-> st.sentences]

\* the variables of splitIntoSentences when its for loop ends
SentenceLoop(words) ==
    Loop(LAMBDA st : sentenceStep(words, st), LAMBDA st : st.i > Len(words),
         [i |-> 1, current |-> <<>>, sentences |-> <<>>], Len(words))

\* mutant: the text left after the last sentence end is dropped
splitIntoSentencesNoRest(t) ==
    SentenceLoop(Split(t, " ")).sentences

\* splitIntoSentences(text): the loop, then the push of any remaining text
splitIntoSentences(t) ==
    LET r == SentenceLoop(Split(t, " "))
    IN  IF Trim(r.current) # <<>>
        THEN Append(r.sentences, Trim(r.current))
        ELSE r.sentences

\* w.endsWith(',') || w.endsWith(';') || w.endsWith(':') || w.endsWith(<U+00E2 U+20AC U+201D>) || w.endsWith('-')
\* the fourth literal is the three characters U+00E2 U+20AC U+201D in the source file
isNaturalBreak(w) ==
    \/ EndsWith(w, <<",">>)
    \/ EndsWith(w, <<";">>)
    \/ EndsWith(w, <<":">>)
    \/ EndsWith(w, <<"U+00E2", "U+20AC", "U+201D">>)
    \/ EndsWith(w, <<"-">>)

RECURSIVE lookBack(_, _)
\* the backward for loop: the break index found from i down, or 0 when none
lookBack(currentChunk, i) ==
    IF i < 1 \/ i < Len(currentChunk) - LOOK_BACK + 1 THEN 0
    ELSE IF isNaturalBreak(currentChunk[i]) THEN i
    ELSE lookBack(currentChunk, i - 1)

\* breakIndex (counted from 1) once currentChunk holds MAX_WORDS words
breakIndex(currentChunk) ==
    LET found == lookBack(currentChunk, Len(currentChunk))
    IN  IF found = 0 THEN Len(currentChunk) ELSE found

\* one iteration of the for loop of splitLongSentence on its variables
\* st = [i, currentChunk, chunks]
longStep(words, st) ==
    LET pushed == Append(st.currentChunk, words[st.i])
    IN  IF Len(pushed) >= MAX_WORDS
        THEN LET b == breakIndex(pushed)
             IN  [i |-> st.i + 1,
                  currentChunk |-> SubSeq(pushed, b + 1, Len(pushed)),
                  chunks |-> Append(st.chunks, Join(SubSeq(pushed, 1, b), <<" ">>))]
        ELSE [i |-> st.i + 1, currentChunk |-> pushed, chunks |-> st.chunks]

\* the variables of splitLongSentence when its for loop ends
LongLoop(words) ==
    Loop(LAMBDA st : longStep(words, st), LAMBDA st : st.i > Len(words),
         [i |-> 1, currentChunk |-> <<>>, chunks |-> <<>>], Len(words))

\* mutant: an over-long sentence handed back whole
splitLongSentenceWhole(sentence) == <<sentence>>

\* splitLongSentence(sentence): the loop, the push of the remaining words, the filter
splitLongSentence(sentence) ==
    LET r == LongLoop(Split(sentence, " "))
        pushed == IF Len(r.currentChunk) > 0
                  THEN Append(r.chunks, Join(r.currentChunk, <<" ">>))
                  ELSE r.chunks
    IN  SelectSeq(pushed, LAMBDA c : Len(Trim(c)) > 0)

\* mutant: the last piece of a hard-split sentence kept pending, to be packed
\* with the sentences that follow
packStepKeepLastPiece(sents, st) ==
    LET sentence == sents[st.i]
        sentenceWords == countWords(sentence)
        pending == Len(st.currentChunk) > 0
        flushed == IF pending
                   THEN Append(st.chunks, Trim(Join(st.currentChunk, <<" ">>)))
                   ELSE st.chunks
        pieces == splitLongSentence(sentence)
    IN  IF sentenceWords > MAX_WORDS
        THEN [i |-> st.i + 1,
              chunks |-> flushed \o SubSeq(pieces, 1, Len(pieces) - 1),
              currentChunk |-> <<pieces[Len(pieces)]>>,
              currentWordCount |-> countWords(pieces[Len(pieces)])]
        ELSE IF st.currentWordCount + sentenceWords > MAX_WORDS
        THEN [i |-> st.i + 1, chunks |-> flushed,
              currentChunk |-> <<sentence>>, currentWordCount |-> sentenceWords]
        ELSE [i |-> st.i + 1, chunks |-> st.chunks,
              currentChunk |-> Append(st.currentChunk, sentence),
              currentWordCount |-> st.currentWordCount + sentenceWords]

\* mutant: the room left in the chunk measured in characters, not in words
packStepByCharacters(sents, st) ==
    LET sentence == sents[st.i]
        sentenceWords == countWords(sentence)
        pending == Len(st.currentChunk) > 0
        flushed == IF pending
                   THEN Append(st.chunks, Trim(Join(st.currentChunk, <<" ">>)))
                   ELSE st.chunks
    IN  IF sentenceWords > MAX_WORDS
        THEN [i |-> st.i + 1,
              chunks |-> flushed \o splitLongSentence(sentence),
              currentChunk |-> IF pending THEN <<>> ELSE st.currentChunk,
              currentWordCount |-> IF pending THEN 0 ELSE st.currentWordCount]
        ELSE IF Len(Join(st.currentChunk, <<" ">>)) + Len(sentence) > MAX_WORDS
        THEN [i |-> st.i + 1, chunks |-> flushed,
              currentChunk |-> <<sentence>>, currentWordCount |-> sentenceWords]
        ELSE [i |-> st.i + 1, chunks |-> st.chunks,
              currentChunk |-> Append(st.currentChunk, sentence),
              currentWordCount |-> st.currentWordCount + sentenceWords]

\* one iteration of the for loop of chunkSentences on its variables
\* st = [i, chunks, currentChunk, currentWordCount]
packStep(sents, st) ==
    LET sentence == sents[st.i]
        sentenceWords == countWords(sentence)
        pending == Len(st.currentChunk) > 0
        flushed == IF pending
                   THEN Append(st.chunks, Trim(Join(st.currentChunk, <<" ">>)))
                   ELSE st.chunks
    IN  IF sentenceWords > MAX_WORDS
        THEN [i |-> st.i + 1,
              chunks |-> flushed \o splitLongSentence(sentence),
              currentChunk |-> IF pending THEN <<>> ELSE st.currentChunk,
              currentWordCount |-> IF pending THEN 0 ELSE st.currentWordCount]
        ELSE IF st.currentWordCount + sentenceWords > MAX_WORDS
        THEN [i |-> st.i + 1, chunks |-> flushed,
              currentChunk |-> <<sentence>>, currentWordCount |-> sentenceWords]
        ELSE [i |-> st.i + 1, chunks |-> st.chunks,
              currentChunk |-> Append(st.currentChunk, sentence),
              currentWordCount |-> st.currentWordCount + sentenceWords]

\* the variables of chunkSentences when its for loop ends
PackLoop(sents) ==
    Loop(LAMBDA st : packStep(sents, st), LAMBDA st : st.i > Len(sents),
         [i |-> 1, chunks |-> <<>>, currentChunk |-> <<>>, currentWordCount |-> 0],
         Len(sents))

\* mutant: the sentences cut every MAX_WORDS words, whatever the sentence ends
chunkSentencesByWords(sents) ==
    IF sents = <<>> THEN <<>> ELSE splitLongSentence(Join(sents, <<" ">>))

\* mutant: the pending chunk pushed without the length test, and no filter
chunkSentencesAlwaysPush(sents) ==
    LET r == PackLoop(sents)
    IN  Append(r.chunks, Trim(Join(r.currentChunk, <<" ">>)))

\* mutant: the pending chunk never pushed after the loop
chunkSentencesNoFlush(sents) ==
    SelectSeq(PackLoop(sents).chunks, LAMBDA chunk : Len(chunk) > 0)

\* chunkSentences(sentences): the loop, the push of the pending chunk, the filter
chunkSentences(sents) ==
    LET r == PackLoop(sents)
        pushed == IF Len(r.currentChunk) > 0
                  THEN Append(r.chunks, Trim(Join(r.currentChunk, <<" ">>)))
                  ELSE r.chunks
    IN  SelectSeq(pushed, LAMBDA chunk : Len(chunk) > 0)

\* the number of "#" characters a line starts with, counted from position i
RECURSIVE hashRun(_, _)
hashRun(s, i) ==
    IF i <= Len(s) /\ s[i] = "#" THEN 1 + hashRun(s, i + 1) ELSE 0

\* the length of the whitespace run that starts at position i
wsRun(s, i) == FirstNonWs(s, i) - i

\* the lengths \s+ may take in /^(#{1,6})\s+(.+)$/ so that (.+)$ matches the rest
\* of the line: the rest is not empty and holds no line terminator
headerSpaces(line) ==
    LET h == hashRun(line, 1)
    IN  { m \in 1..wsRun(line, h + 1) :
            /\ h + m < Len(line)
            /\ \A j \in (h + m + 1)..Len(line) : line[j] \notin LineTerminators }

\* line.match(/^(#{1,6})\s+(.+)$/) is not null
isHeaderLine(line) ==
    /\ hashRun(line, 1) \in 1..6
    /\ headerSpaces(line) # {}

\* headerMatch[2]: \s+ is greedy, so the group starts after the longest run
headerGroup2(line) ==
    LET h == hashRun(line, 1)
        m == CHOOSE x \in headerSpaces(line) : \A y \in headerSpaces(line) : y <= x
    IN  SubSeq(line, h + m + 1, Len(line))

\* /^#{1,6}\s+.+/m.test(text)
hasHeaders(t) ==
    \E i \in 1..Len(t) :
        /\ i = 1 \/ t[i - 1] \in LineTerminators
        /\ LET h == hashRun(t, i)
           IN  /\ h \in 1..6
               /\ \E m \in 1..wsRun(t, i + h) :
                     /\ i + h + m <= Len(t)
                     /\ t[i + h + m] \notin LineTerminators

\* mutant: the header kept with its # markers
headerTextWithMarkers(line) == Trim(line)

\* currentHeader = headerMatch[2].trim()
headerText(line) == Trim(headerGroup2(line))

\* mutant: a heading line renames the current section instead of closing it
sectionStepNoPush(lines, st) ==
    IF isHeaderLine(lines[st.i])
    THEN [i |-> st.i + 1, sections |-> st.sections,
          currentHeader |-> JSStr(headerText(lines[st.i])),
          currentContent |-> st.currentContent]
    ELSE [i |-> st.i + 1, sections |-> st.sections,
          currentHeader |-> st.currentHeader,
          currentContent |-> Append(st.currentContent, lines[st.i])]

\* one iteration of the for loop over the lines on its variables
\* st = [i, sections, currentHeader, currentContent]
sectionStep(lines, st) ==
    IF isHeaderLine(lines[st.i])
    THEN [i |-> st.i + 1,
          sections |->
              IF Len(st.currentContent) > 0
              THEN Append(st.sections,
                          [header |-> st.currentHeader,
                           content |-> Trim(Join(st.currentContent, <<"\n">>))])
              ELSE st.sections,
          currentHeader |-> JSStr(headerText(lines[st.i])),
          currentContent |-> <<>>]
    ELSE [i |-> st.i + 1, sections |-> st.sections,
          currentHeader |-> st.currentHeader,
          currentContent |-> Append(st.currentContent, lines[st.i])]

\* the variables of chunkByStructure when its loop over the lines ends
SectionLoop(lines) ==
    Loop(LAMBDA st : sectionStep(lines, st), LAMBDA st : st.i > Len(lines),
         [i |-> 1, sections |-> <<>>, currentHeader |-> JSNull, currentContent |-> <<>>],
         Len(lines))

\* the sections chunkByStructure collects: the loop, then the push of the last one
sectionsOf(t) ==
    LET r == SectionLoop(Split(t, "\n"))
    IN  IF Len(r.currentContent) > 0
        THEN Append(r.sections, [header |-> r.currentHeader,
                                 content |-> Trim(Join(r.currentContent, <<"\n">>))])
        ELSE r.sections

\* mutant: a section without content kept as one empty chunk under its header
sectionChunksKeepEmpty(section) ==
    IF section.content = <<>> THEN <<[text |-> <<>>, context |-> section.header]>>
    ELSE LET cleanContent == Trim(CollapseWhitespace(section.content))
             texts == chunkSentences(splitIntoSentences(cleanContent))
         IN  [k \in 1..Len(texts) |-> [text |-> texts[k], context |-> section.header]]

\* the chunks of one section, each tagged with the section's header
sectionChunks(section) ==
    IF section.content = <<>> THEN <<>>
    ELSE LET cleanContent == Trim(CollapseWhitespace(section.content))
             texts == chunkSentences(splitIntoSentences(cleanContent))
         IN  [k \in 1..Len(texts) |-> [text |-> texts[k], context |-> section.header]]

RECURSIVE allChunks(_, _)
allChunks(sections, i) ==
    IF i > Len(sections) THEN <<>>
    ELSE sectionChunks(sections[i]) \o allChunks(sections, i + 1)

chunkByStructure(t) == allChunks(sectionsOf(t), 1)

\* mutant: the option read but never used
structuralChunkingAlways(opts) == TRUE

\* const { structuralChunking = true } = options
structuralChunking(opts) ==
    IF opts.type = "undefined" \/ ~opts.has THEN TRUE ELSE opts.structuralChunking

\* mutant: the flat fallback leaves the heading lines out
chunkFlatSkipHeadings(normalizedText) ==
    LET kept == SelectSeq(Split(normalizedText, "\n"), LAMBDA line : ~isHeaderLine(line))
        texts == chunkSentences(splitIntoSentences(
                     Trim(CollapseWhitespace(Join(kept, <<"\n">>)))))
    IN  [k \in 1..Len(texts) |-> [text |-> texts[k], context |-> JSNull]]

\* the flat fallback of chunkText
chunkFlat(normalizedText) ==
    LET cleanText == Trim(CollapseWhitespace(normalizedText))
        texts == chunkSentences(splitIntoSentences(cleanText))
    IN  [k \in 1..Len(texts) |-> [text |-> texts[k], context |-> JSNull]]

\* text.replace(/\r\n/g, '\n').trim()
normalize(s) == Trim(ReplaceCRLF(s))

\* chunkText from the normalizedText on
chunkNormalized(normalizedText, opts) ==
    IF normalizedText = <<>> THEN <<>>
    ELSE IF structuralChunking(opts) /\ hasHeaders(normalizedText)
         THEN chunkByStructure(normalizedText)
         ELSE chunkFlat(normalizedText)

\* mutant: the guard written with && : a truthy non-string reaches text.replace,
\* which throws
chunkTextAndGuard(t, opts) ==
    IF Falsy(t) /\ t.type # "string" THEN <<>>
    ELSE IF t.type # "string" THEN <<[error |-> "TypeError"]>>
    ELSE chunkNormalized(normalize(t.str), opts)

\* chunkText(text, options)
chunkText(t, opts) ==
    IF Falsy(t) \/ t.type # "string" THEN <<>>
    ELSE chunkNormalized(normalize(t.str), opts)

\* getTextFromChunk(chunk): '' for a falsy chunk, chunk.text for an object (the
\* text of a chunk that chunkText made, undefined for an object without the
\* property) and any other chunk itself
getTextFromChunk(chunk) ==
    IF "type" \in DOMAIN chunk /\ Falsy(chunk) THEN JSStr(<<>>)
    ELSE IF "text" \in DOMAIN chunk THEN JSStr(chunk.text)
    ELSE IF chunk.type = "object" THEN JSUndefined
    ELSE chunk

\* countWords(text) called with any value: 0 for a falsy one and the count for
\* a string; a truthy value of another type has no split method, and the call
\* throws
countWordsThrows(v) == ~Falsy(v) /\ v.type # "string"
countWordsOf(v) == IF Falsy(v) THEN 0 ELSE countWords(v.str)

RECURSIVE Sum(_)
Sum(a) == IF a = <<>> THEN 0 ELSE Head(a) + Sum(Tail(a))

SeqMin(a) == CHOOSE x \in {a[k] : k \in 1..Len(a)} : \A k \in 1..Len(a) : x <= a[k]
SeqMax(a) == CHOOSE x \in {a[k] : k \in 1..Len(a)} : \A k \in 1..Len(a) : x >= a[k]

\* mutant: Math.floor in the place of Math.round
RoundDivFloor(n, d) == n \div d

\* Math.round(n / d) for n >= 0, d > 0: the nearest integer, halves upward
RoundDiv(n, d) == (2 * n + d) \div (2 * d)

\* mutant: the empty case reporting a minimum that was initialised to MAX_WORDS
getChunkStatsSentinel(arg) ==
    IF Falsy(arg) \/ Len(arg.items) = 0
    THEN [totalChunks |-> 0, avgWords |-> 0, minWords |-> MAX_WORDS, maxWords |-> 0]
    ELSE LET texts == [k \in 1..Len(arg.items) |-> getTextFromChunk(arg.items[k])]
             wordCounts == [k \in 1..Len(arg.items) |-> countWordsOf(texts[k])]
             totalWords == Sum(wordCounts)
         IN  IF \E k \in 1..Len(arg.items) : countWordsThrows(texts[k])
             THEN [error |-> "TypeError"]
             ELSE [totalChunks |-> Len(arg.items),
                   totalWords |-> totalWords,
                   avgWords |-> RoundDiv(totalWords, Len(arg.items)),
                   minWords |-> SeqMin(wordCounts),
                   maxWords |-> SeqMax(wordCounts)]

\* getChunkStats(chunks)
getChunkStats(arg) ==
    IF Falsy(arg) \/ Len(arg.items) = 0
    THEN [totalChunks |-> 0, avgWords |-> 0, minWords |-> 0, maxWords |-> 0]
    ELSE LET texts == [k \in 1..Len(arg.items) |-> getTextFromChunk(arg.items[k])]
             wordCounts == [k \in 1..Len(arg.items) |-> countWordsOf(texts[k])]
             totalWords == Sum(wordCounts)
         IN  IF \E k \in 1..Len(arg.items) : countWordsThrows(texts[k])
             THEN [error |-> "TypeError"]
             ELSE [totalChunks |-> Len(arg.items),
                   totalWords |-> totalWords,
                   avgWords |-> RoundDiv(totalWords, Len(arg.items)),
                   minWords |-> SeqMin(wordCounts),
                   maxWords |-> SeqMax(wordCounts)]

(***************************************************************************)
(* textParser.js: text files                                               *)
(***************************************************************************)
\* the characters of s at the positions that pass the test
Keep(s, Test(_)) ==
    LET keep == SelectSeq(Positions(s), Test)
    IN  [k \in 1..Len(keep) |-> s[keep[k]]]

\* .replace(/\r/g, '\n')
crToNewline(s) == [i \in 1..Len(s) |-> IF s[i] = "\r" THEN "\n" ELSE s[i]]

\* .replace(/\n{3,}/g, '\n\n')
collapseNewlines(s) ==
    Keep(s, LAMBDA i : ~(s[i] = "\n" /\ i > 2 /\ s[i - 1] = "\n" /\ s[i - 2] = "\n"))

\* .replace(/\t/g, ' ')
tabsToSpaces(s) == [i \in 1..Len(s) |-> IF s[i] = "\t" THEN " " ELSE s[i]]

\* .replace(/ +/g, ' ')
collapseSpaces(s) == Keep(s, LAMBDA i : ~(s[i] = " " /\ i > 1 /\ s[i - 1] = " "))

\* .replace(/^ +/gm, '')
stripLeadingSpaces(s) ==
    Keep(s, LAMBDA i : ~\E j \in 1..i : /\ j = 1 \/ s[j - 1] \in LineTerminators
                                        /\ \A k \in j..i : s[k] = " ")

\* .replace(/ +$/gm, '')
stripTrailingSpaces(s) ==
    Keep(s, LAMBDA i : ~\E j \in i..Len(s) : /\ j = Len(s) \/ s[j + 1] \in LineTerminators
                                             /\ \A k \in i..j : s[k] = " ")

\* .replace(/^\uFEFF/, '')
stripBOM(s) == IF s # <<>> /\ s[1] = "U+FEFF" THEN SubSeq(s, 2, Len(s)) ELSE s

\* cleanText(text) of the text file parser, one replace after the other
cleanText(t) ==
    Trim(stripBOM(stripTrailingSpaces(stripLeadingSpaces(collapseSpaces(
        tabsToSpaces(collapseNewlines(crToNewline(ReplaceCRLF(t)))))))))

\* the code units of code point cp in UTF-16: the code unit itself below
\* 65536, the surrogate pair above; a code unit is written as the strings of
\* the model write it
Units(cp) ==
    LET hex == <<"0", "1", "2", "3", "4", "5", "6", "7", "8", "9", "A", "B", "C", "D", "E", "F">>
        ascii == <<" ", "!", "\"", "#", "$", "%", "&", "'", "(", ")", "*", "+", ",", "-", ".",
                   "/", "0", "1", "2", "3", "4", "5", "6", "7", "8", "9", ":", ";", "<", "=",
                   ">", "?", "@", "A", "B", "C", "D", "E", "F", "G", "H", "I", "J", "K", "L",
                   "M", "N", "O", "P", "Q", "R", "S", "T", "U", "V", "W", "X", "Y", "Z", "[",
                   "\\", "]", "^", "_", "U+0060", "a", "b", "c", "d", "e", "f", "g", "h", "i", "j",
                   "k", "l", "m", "n", "o", "p", "q", "r", "s", "t", "u", "v", "w", "x", "y",
                   "z", "{", "|", "}", "~">>
        CodeUnit(n) ==
            IF n \in 32..126 THEN ascii[n - 31]
            ELSE IF n = 9 THEN "\t" ELSE IF n = 10 THEN "\n"
            ELSE IF n = 12 THEN "\f" ELSE IF n = 13 THEN "\r"
            ELSE "U+" \o hex[(n \div 4096) + 1] \o hex[((n \div 256) % 16) + 1]
                      \o hex[((n \div 16) % 16) + 1] \o hex[(n % 16) + 1]
    IN  IF cp < 65536 THEN <<CodeUnit(cp)>>
        ELSE <<CodeUnit(55296 + ((cp - 65536) \div 1024)),
               CodeUnit(56320 + ((cp - 65536) % 1024))>>

\* A case mapping as a function from a character (its code units) to the
\* string it becomes. runs: <<first, last, step, distance>>, every step-th code
\* point from first to last becomes the code point at the distance; special:
\* <<code point, the code points it becomes>>. (@@ makes the function explicit.)
caseTable(runs, special) ==
    LET explicit(table) == table @@ table
        functionOf(pairs) ==
            explicit([ch \in {p[1] : p \in pairs} |-> (CHOOSE p \in pairs : p[1] = ch)[2]])
    IN  functionOf(
            UNION { { <<Units(r[1] + (r[3] * k)), Units(r[1] + (r[3] * k) + r[4])>> :
                        k \in 0..((r[2] - r[1]) \div r[3]) } : r \in runs }
            \cup { <<Units(p[1]), Flatten([k \in 1..Len(p[2]) |-> Units(p[2][k])])>> :
                        p \in special })

\* String.prototype.toLowerCase of one character, for the characters it
\* changes (Unicode 17, no locale); the capital sigma is here with its small
\* form that is not final
lowerCaseOf ==
    caseTable(
        { <<\h0041, \h005A, 1, 32>>, <<\h00C0, \h00D6, 1, 32>>, <<\h00D8, \h00DE, 1, 32>>,
          <<\h0100, \h012E, 2, 1>>, <<\h0132, \h0136, 2, 1>>, <<\h0139, \h0147, 2, 1>>,
          <<\h014A, \h0176, 2, 1>>, <<\h0178, \h0178, 1, -121>>, <<\h0179, \h017D, 2, 1>>,
          <<\h0181, \h0181, 1, 210>>, <<\h0182, \h0184, 2, 1>>, <<\h0186, \h0186, 1, 206>>,
          <<\h0187, \h0187, 1, 1>>, <<\h0189, \h018A, 1, 205>>, <<\h018B, \h018B, 1, 1>>,
          <<\h018E, \h018E, 1, 79>>, <<\h018F, \h018F, 1, 202>>,
          <<\h0190, \h0190, 1, 203>>, <<\h0191, \h0191, 1, 1>>, <<\h0193, \h0193, 1, 205>>,
          <<\h0194, \h0194, 1, 207>>, <<\h0196, \h0196, 1, 211>>,
          <<\h0197, \h0197, 1, 209>>, <<\h0198, \h0198, 1, 1>>, <<\h019C, \h019C, 1, 211>>,
          <<\h019D, \h019D, 1, 213>>, <<\h019F, \h019F, 1, 214>>, <<\h01A0, \h01A4, 2, 1>>,
          <<\h01A6, \h01A6, 1, 218>>, <<\h01A7, \h01A7, 1, 1>>, <<\h01A9, \h01A9, 1, 218>>,
          <<\h01AC, \h01AC, 1, 1>>, <<\h01AE, \h01AE, 1, 218>>, <<\h01AF, \h01AF, 1, 1>>,
          <<\h01B1, \h01B2, 1, 217>>, <<\h01B3, \h01B5, 2, 1>>, <<\h01B7, \h01B7, 1, 219>>,
          <<\h01B8, \h01B8, 1, 1>>, <<\h01BC, \h01BC, 1, 1>>, <<\h01C4, \h01C4, 1, 2>>,
          <<\h01C5, \h01C5, 1, 1>>, <<\h01C7, \h01C7, 1, 2>>, <<\h01C8, \h01C8, 1, 1>>,
          <<\h01CA, \h01CA, 1, 2>>, <<\h01CB, \h01DB, 2, 1>>, <<\h01DE, \h01EE, 2, 1>>,
          <<\h01F1, \h01F1, 1, 2>>, <<\h01F2, \h01F4, 2, 1>>, <<\h01F6, \h01F6, 1, -97>>,
          <<\h01F7, \h01F7, 1, -56>>, <<\h01F8, \h021E, 2, 1>>,
          <<\h0220, \h0220, 1, -130>>, <<\h0222, \h0232, 2, 1>>,
          <<\h023A, \h023A, 1, 10795>>, <<\h023B, \h023B, 1, 1>>,
          <<\h023D, \h023D, 1, -163>>, <<\h023E, \h023E, 1, 10792>>,
          <<\h0241, \h0241, 1, 1>>, <<\h0243, \h0243, 1, -195>>, <<\h0244, \h0244, 1, 69>>,
          <<\h0245, \h0245, 1, 71>>, <<\h0246, \h024E, 2, 1>>, <<\h0370, \h0372, 2, 1>>,
          <<\h0376, \h0376, 1, 1>>, <<\h037F, \h037F, 1, 116>>, <<\h0386, \h0386, 1, 38>>,
          <<\h0388, \h038A, 1, 37>>, <<\h038C, \h038C, 1, 64>>, <<\h038E, \h038F, 1, 63>>,
          <<\h0391, \h03A1, 1, 32>>, <<\h03A3, \h03AB, 1, 32>>, <<\h03CF, \h03CF, 1, 8>>,
          <<\h03D8, \h03EE, 2, 1>>, <<\h03F4, \h03F4, 1, -60>>, <<\h03F7, \h03F7, 1, 1>>,
          <<\h03F9, \h03F9, 1, -7>>, <<\h03FA, \h03FA, 1, 1>>, <<\h03FD, \h03FF, 1, -130>>,
          <<\h0400, \h040F, 1, 80>>, <<\h0410, \h042F, 1, 32>>, <<\h0460, \h0480, 2, 1>>,
          <<\h048A, \h04BE, 2, 1>>, <<\h04C0, \h04C0, 1, 15>>, <<\h04C1, \h04CD, 2, 1>>,
          <<\h04D0, \h052E, 2, 1>>, <<\h0531, \h0556, 1, 48>>, <<\h10A0, \h10C5, 1, 7264>>,
          <<\h10C7, \h10C7, 1, 7264>>, <<\h10CD, \h10CD, 1, 7264>>,
          <<\h13A0, \h13EF, 1, 38864>>, <<\h13F0, \h13F5, 1, 8>>, <<\h1C89, \h1C89, 1, 1>>,
          <<\h1C90, \h1CBA, 1, -3008>>, <<\h1CBD, \h1CBF, 1, -3008>>,
          <<\h1E00, \h1E94, 2, 1>>, <<\h1E9E, \h1E9E, 1, -7615>>, <<\h1EA0, \h1EFE, 2, 1>>,
          <<\h1F08, \h1F0F, 1, -8>>, <<\h1F18, \h1F1D, 1, -8>>, <<\h1F28, \h1F2F, 1, -8>>,
          <<\h1F38, \h1F3F, 1, -8>>, <<\h1F48, \h1F4D, 1, -8>>, <<\h1F59, \h1F5F, 2, -8>>,
          <<\h1F68, \h1F6F, 1, -8>>, <<\h1F88, \h1F8F, 1, -8>>, <<\h1F98, \h1F9F, 1, -8>>,
          <<\h1FA8, \h1FAF, 1, -8>>, <<\h1FB8, \h1FB9, 1, -8>>, <<\h1FBA, \h1FBB, 1, -74>>,
          <<\h1FBC, \h1FBC, 1, -9>>, <<\h1FC8, \h1FCB, 1, -86>>, <<\h1FCC, \h1FCC, 1, -9>>,
          <<\h1FD8, \h1FD9, 1, -8>>, <<\h1FDA, \h1FDB, 1, -100>>,
          <<\h1FE8, \h1FE9, 1, -8>>, <<\h1FEA, \h1FEB, 1, -112>>,
          <<\h1FEC, \h1FEC, 1, -7>>, <<\h1FF8, \h1FF9, 1, -128>>,
          <<\h1FFA, \h1FFB, 1, -126>>, <<\h1FFC, \h1FFC, 1, -9>>,
          <<\h2126, \h2126, 1, -7517>>, <<\h212A, \h212A, 1, -8383>>,
          <<\h212B, \h212B, 1, -8262>>, <<\h2132, \h2132, 1, 28>>,
          <<\h2160, \h216F, 1, 16>>, <<\h2183, \h2183, 1, 1>>, <<\h24B6, \h24CF, 1, 26>>,
          <<\h2C00, \h2C2F, 1, 48>>, <<\h2C60, \h2C60, 1, 1>>,
          <<\h2C62, \h2C62, 1, -10743>>, <<\h2C63, \h2C63, 1, -3814>>,
          <<\h2C64, \h2C64, 1, -10727>>, <<\h2C67, \h2C6B, 2, 1>>,
          <<\h2C6D, \h2C6D, 1, -10780>>, <<\h2C6E, \h2C6E, 1, -10749>>,
          <<\h2C6F, \h2C6F, 1, -10783>>, <<\h2C70, \h2C70, 1, -10782>>,
          <<\h2C72, \h2C72, 1, 1>>, <<\h2C75, \h2C75, 1, 1>>,
          <<\h2C7E, \h2C7F, 1, -10815>>, <<\h2C80, \h2CE2, 2, 1>>,
          <<\h2CEB, \h2CED, 2, 1>>, <<\h2CF2, \h2CF2, 1, 1>>, <<\hA640, \hA66C, 2, 1>>,
          <<\hA680, \hA69A, 2, 1>>, <<\hA722, \hA72E, 2, 1>>, <<\hA732, \hA76E, 2, 1>>,
          <<\hA779, \hA77B, 2, 1>>, <<\hA77D, \hA77D, 1, -35332>>,
          <<\hA77E, \hA786, 2, 1>>, <<\hA78B, \hA78B, 1, 1>>,
          <<\hA78D, \hA78D, 1, -42280>>, <<\hA790, \hA792, 2, 1>>,
          <<\hA796, \hA7A8, 2, 1>>, <<\hA7AA, \hA7AA, 1, -42308>>,
          <<\hA7AB, \hA7AB, 1, -42319>>, <<\hA7AC, \hA7AC, 1, -42315>>,
          <<\hA7AD, \hA7AD, 1, -42305>>, <<\hA7AE, \hA7AE, 1, -42308>>,
          <<\hA7B0, \hA7B0, 1, -42258>>, <<\hA7B1, \hA7B1, 1, -42282>>,
          <<\hA7B2, \hA7B2, 1, -42261>>, <<\hA7B3, \hA7B3, 1, 928>>,
          <<\hA7B4, \hA7C2, 2, 1>>, <<\hA7C4, \hA7C4, 1, -48>>,
          <<\hA7C5, \hA7C5, 1, -42307>>, <<\hA7C6, \hA7C6, 1, -35384>>,
          <<\hA7C7, \hA7C9, 2, 1>>, <<\hA7CB, \hA7CB, 1, -42343>>,
          <<\hA7CC, \hA7DA, 2, 1>>, <<\hA7DC, \hA7DC, 1, -42561>>,
          <<\hA7F5, \hA7F5, 1, 1>>, <<\hFF21, \hFF3A, 1, 32>>, <<\h10400, \h10427, 1, 40>>,
          <<\h104B0, \h104D3, 1, 40>>, <<\h10570, \h1057A, 1, 39>>,
          <<\h1057C, \h1058A, 1, 39>>, <<\h1058C, \h10592, 1, 39>>,
          <<\h10594, \h10595, 1, 39>>, <<\h10C80, \h10CB2, 1, 64>>,
          <<\h10D50, \h10D65, 1, 32>>, <<\h118A0, \h118BF, 1, 32>>,
          <<\h16E40, \h16E5F, 1, 32>>, <<\h16EA0, \h16EB8, 1, 27>>,
          <<\h1E900, \h1E921, 1, 34>> },
        { <<\h0130, <<\h0069, \h0307>>>> })

\* String.prototype.toUpperCase of one character, for the characters it changes
upperCaseOf ==
    caseTable(
        { <<\h0061, \h007A, 1, -32>>, <<\h00B5, \h00B5, 1, 743>>,
          <<\h00E0, \h00F6, 1, -32>>, <<\h00F8, \h00FE, 1, -32>>,
          <<\h00FF, \h00FF, 1, 121>>, <<\h0101, \h012F, 2, -1>>,
          <<\h0131, \h0131, 1, -232>>, <<\h0133, \h0137, 2, -1>>,
          <<\h013A, \h0148, 2, -1>>, <<\h014B, \h0177, 2, -1>>, <<\h017A, \h017E, 2, -1>>,
          <<\h017F, \h017F, 1, -300>>, <<\h0180, \h0180, 1, 195>>,
          <<\h0183, \h0185, 2, -1>>, <<\h0188, \h0188, 1, -1>>, <<\h018C, \h018C, 1, -1>>,
          <<\h0192, \h0192, 1, -1>>, <<\h0195, \h0195, 1, 97>>, <<\h0199, \h0199, 1, -1>>,
          <<\h019A, \h019A, 1, 163>>, <<\h019B, \h019B, 1, 42561>>,
          <<\h019E, \h019E, 1, 130>>, <<\h01A1, \h01A5, 2, -1>>, <<\h01A8, \h01A8, 1, -1>>,
          <<\h01AD, \h01AD, 1, -1>>, <<\h01B0, \h01B0, 1, -1>>, <<\h01B4, \h01B6, 2, -1>>,
          <<\h01B9, \h01B9, 1, -1>>, <<\h01BD, \h01BD, 1, -1>>, <<\h01BF, \h01BF, 1, 56>>,
          <<\h01C5, \h01C5, 1, -1>>, <<\h01C6, \h01C6, 1, -2>>, <<\h01C8, \h01C8, 1, -1>>,
          <<\h01C9, \h01C9, 1, -2>>, <<\h01CB, \h01CB, 1, -1>>, <<\h01CC, \h01CC, 1, -2>>,
          <<\h01CE, \h01DC, 2, -1>>, <<\h01DD, \h01DD, 1, -79>>, <<\h01DF, \h01EF, 2, -1>>,
          <<\h01F2, \h01F2, 1, -1>>, <<\h01F3, \h01F3, 1, -2>>, <<\h01F5, \h01F5, 1, -1>>,
          <<\h01F9, \h021F, 2, -1>>, <<\h0223, \h0233, 2, -1>>, <<\h023C, \h023C, 1, -1>>,
          <<\h023F, \h0240, 1, 10815>>, <<\h0242, \h0242, 1, -1>>,
          <<\h0247, \h024F, 2, -1>>, <<\h0250, \h0250, 1, 10783>>,
          <<\h0251, \h0251, 1, 10780>>, <<\h0252, \h0252, 1, 10782>>,
          <<\h0253, \h0253, 1, -210>>, <<\h0254, \h0254, 1, -206>>,
          <<\h0256, \h0257, 1, -205>>, <<\h0259, \h0259, 1, -202>>,
          <<\h025B, \h025B, 1, -203>>, <<\h025C, \h025C, 1, 42319>>,
          <<\h0260, \h0260, 1, -205>>, <<\h0261, \h0261, 1, 42315>>,
          <<\h0263, \h0263, 1, -207>>, <<\h0264, \h0264, 1, 42343>>,
          <<\h0265, \h0265, 1, 42280>>, <<\h0266, \h0266, 1, 42308>>,
          <<\h0268, \h0268, 1, -209>>, <<\h0269, \h0269, 1, -211>>,
          <<\h026A, \h026A, 1, 42308>>, <<\h026B, \h026B, 1, 10743>>,
          <<\h026C, \h026C, 1, 42305>>, <<\h026F, \h026F, 1, -211>>,
          <<\h0271, \h0271, 1, 10749>>, <<\h0272, \h0272, 1, -213>>,
          <<\h0275, \h0275, 1, -214>>, <<\h027D, \h027D, 1, 10727>>,
          <<\h0280, \h0280, 1, -218>>, <<\h0282, \h0282, 1, 42307>>,
          <<\h0283, \h0283, 1, -218>>, <<\h0287, \h0287, 1, 42282>>,
          <<\h0288, \h0288, 1, -218>>, <<\h0289, \h0289, 1, -69>>,
          <<\h028A, \h028B, 1, -217>>, <<\h028C, \h028C, 1, -71>>,
          <<\h0292, \h0292, 1, -219>>, <<\h029D, \h029D, 1, 42261>>,
          <<\h029E, \h029E, 1, 42258>>, <<\h0345, \h0345, 1, 84>>,
          <<\h0371, \h0373, 2, -1>>, <<\h0377, \h0377, 1, -1>>, <<\h037B, \h037D, 1, 130>>,
          <<\h03AC, \h03AC, 1, -38>>, <<\h03AD, \h03AF, 1, -37>>,
          <<\h03B1, \h03C1, 1, -32>>, <<\h03C2, \h03C2, 1, -31>>,
          <<\h03C3, \h03CB, 1, -32>>, <<\h03CC, \h03CC, 1, -64>>,
          <<\h03CD, \h03CE, 1, -63>>, <<\h03D0, \h03D0, 1, -62>>,
          <<\h03D1, \h03D1, 1, -57>>, <<\h03D5, \h03D5, 1, -47>>,
          <<\h03D6, \h03D6, 1, -54>>, <<\h03D7, \h03D7, 1, -8>>, <<\h03D9, \h03EF, 2, -1>>,
          <<\h03F0, \h03F0, 1, -86>>, <<\h03F1, \h03F1, 1, -80>>, <<\h03F2, \h03F2, 1, 7>>,
          <<\h03F3, \h03F3, 1, -116>>, <<\h03F5, \h03F5, 1, -96>>,
          <<\h03F8, \h03F8, 1, -1>>, <<\h03FB, \h03FB, 1, -1>>, <<\h0430, \h044F, 1, -32>>,
          <<\h0450, \h045F, 1, -80>>, <<\h0461, \h0481, 2, -1>>, <<\h048B, \h04BF, 2, -1>>,
          <<\h04C2, \h04CE, 2, -1>>, <<\h04CF, \h04CF, 1, -15>>, <<\h04D1, \h052F, 2, -1>>,
          <<\h0561, \h0586, 1, -48>>, <<\h10D0, \h10FA, 1, 3008>>,
          <<\h10FD, \h10FF, 1, 3008>>, <<\h13F8, \h13FD, 1, -8>>,
          <<\h1C80, \h1C80, 1, -6254>>, <<\h1C81, \h1C81, 1, -6253>>,
          <<\h1C82, \h1C82, 1, -6244>>, <<\h1C83, \h1C84, 1, -6242>>,
          <<\h1C85, \h1C85, 1, -6243>>, <<\h1C86, \h1C86, 1, -6236>>,
          <<\h1C87, \h1C87, 1, -6181>>, <<\h1C88, \h1C88, 1, 35266>>,
          <<\h1C8A, \h1C8A, 1, -1>>, <<\h1D79, \h1D79, 1, 35332>>,
          <<\h1D7D, \h1D7D, 1, 3814>>, <<\h1D8E, \h1D8E, 1, 35384>>,
          <<\h1E01, \h1E95, 2, -1>>, <<\h1E9B, \h1E9B, 1, -59>>, <<\h1EA1, \h1EFF, 2, -1>>,
          <<\h1F00, \h1F07, 1, 8>>, <<\h1F10, \h1F15, 1, 8>>, <<\h1F20, \h1F27, 1, 8>>,
          <<\h1F30, \h1F37, 1, 8>>, <<\h1F40, \h1F45, 1, 8>>, <<\h1F51, \h1F57, 2, 8>>,
          <<\h1F60, \h1F67, 1, 8>>, <<\h1F70, \h1F71, 1, 74>>, <<\h1F72, \h1F75, 1, 86>>,
          <<\h1F76, \h1F77, 1, 100>>, <<\h1F78, \h1F79, 1, 128>>,
          <<\h1F7A, \h1F7B, 1, 112>>, <<\h1F7C, \h1F7D, 1, 126>>, <<\h1FB0, \h1FB1, 1, 8>>,
          <<\h1FBE, \h1FBE, 1, -7205>>, <<\h1FD0, \h1FD1, 1, 8>>, <<\h1FE0, \h1FE1, 1, 8>>,
          <<\h1FE5, \h1FE5, 1, 7>>, <<\h214E, \h214E, 1, -28>>, <<\h2170, \h217F, 1, -16>>,
          <<\h2184, \h2184, 1, -1>>, <<\h24D0, \h24E9, 1, -26>>,
          <<\h2C30, \h2C5F, 1, -48>>, <<\h2C61, \h2C61, 1, -1>>,
          <<\h2C65, \h2C65, 1, -10795>>, <<\h2C66, \h2C66, 1, -10792>>,
          <<\h2C68, \h2C6C, 2, -1>>, <<\h2C73, \h2C73, 1, -1>>, <<\h2C76, \h2C76, 1, -1>>,
          <<\h2C81, \h2CE3, 2, -1>>, <<\h2CEC, \h2CEE, 2, -1>>, <<\h2CF3, \h2CF3, 1, -1>>,
          <<\h2D00, \h2D25, 1, -7264>>, <<\h2D27, \h2D27, 1, -7264>>,
          <<\h2D2D, \h2D2D, 1, -7264>>, <<\hA641, \hA66D, 2, -1>>,
          <<\hA681, \hA69B, 2, -1>>, <<\hA723, \hA72F, 2, -1>>, <<\hA733, \hA76F, 2, -1>>,
          <<\hA77A, \hA77C, 2, -1>>, <<\hA77F, \hA787, 2, -1>>, <<\hA78C, \hA78C, 1, -1>>,
          <<\hA791, \hA793, 2, -1>>, <<\hA794, \hA794, 1, 48>>, <<\hA797, \hA7A9, 2, -1>>,
          <<\hA7B5, \hA7C3, 2, -1>>, <<\hA7C8, \hA7CA, 2, -1>>, <<\hA7CD, \hA7DB, 2, -1>>,
          <<\hA7F6, \hA7F6, 1, -1>>, <<\hAB53, \hAB53, 1, -928>>,
          <<\hAB70, \hABBF, 1, -38864>>, <<\hFF41, \hFF5A, 1, -32>>,
          <<\h10428, \h1044F, 1, -40>>, <<\h104D8, \h104FB, 1, -40>>,
          <<\h10597, \h105A1, 1, -39>>, <<\h105A3, \h105B1, 1, -39>>,
          <<\h105B3, \h105B9, 1, -39>>, <<\h105BB, \h105BC, 1, -39>>,
          <<\h10CC0, \h10CF2, 1, -64>>, <<\h10D70, \h10D85, 1, -32>>,
          <<\h118C0, \h118DF, 1, -32>>, <<\h16E60, \h16E7F, 1, -32>>,
          <<\h16EBB, \h16ED3, 1, -27>>, <<\h1E922, \h1E943, 1, -34>> },
        { <<\h00DF, <<\h0053, \h0053>>>>, <<\h0149, <<\h02BC, \h004E>>>>,
          <<\h01F0, <<\h004A, \h030C>>>>, <<\h0390, <<\h0399, \h0308, \h0301>>>>,
          <<\h03B0, <<\h03A5, \h0308, \h0301>>>>, <<\h0587, <<\h0535, \h0552>>>>,
          <<\h1E96, <<\h0048, \h0331>>>>, <<\h1E97, <<\h0054, \h0308>>>>,
          <<\h1E98, <<\h0057, \h030A>>>>, <<\h1E99, <<\h0059, \h030A>>>>,
          <<\h1E9A, <<\h0041, \h02BE>>>>, <<\h1F50, <<\h03A5, \h0313>>>>,
          <<\h1F52, <<\h03A5, \h0313, \h0300>>>>, <<\h1F54, <<\h03A5, \h0313, \h0301>>>>,
          <<\h1F56, <<\h03A5, \h0313, \h0342>>>>, <<\h1F80, <<\h1F08, \h0399>>>>,
          <<\h1F81, <<\h1F09, \h0399>>>>, <<\h1F82, <<\h1F0A, \h0399>>>>,
          <<\h1F83, <<\h1F0B, \h0399>>>>, <<\h1F84, <<\h1F0C, \h0399>>>>,
          <<\h1F85, <<\h1F0D, \h0399>>>>, <<\h1F86, <<\h1F0E, \h0399>>>>,
          <<\h1F87, <<\h1F0F, \h0399>>>>, <<\h1F88, <<\h1F08, \h0399>>>>,
          <<\h1F89, <<\h1F09, \h0399>>>>, <<\h1F8A, <<\h1F0A, \h0399>>>>,
          <<\h1F8B, <<\h1F0B, \h0399>>>>, <<\h1F8C, <<\h1F0C, \h0399>>>>,
          <<\h1F8D, <<\h1F0D, \h0399>>>>, <<\h1F8E, <<\h1F0E, \h0399>>>>,
          <<\h1F8F, <<\h1F0F, \h0399>>>>, <<\h1F90, <<\h1F28, \h0399>>>>,
          <<\h1F91, <<\h1F29, \h0399>>>>, <<\h1F92, <<\h1F2A, \h0399>>>>,
          <<\h1F93, <<\h1F2B, \h0399>>>>, <<\h1F94, <<\h1F2C, \h0399>>>>,
          <<\h1F95, <<\h1F2D, \h0399>>>>, <<\h1F96, <<\h1F2E, \h0399>>>>,
          <<\h1F97, <<\h1F2F, \h0399>>>>, <<\h1F98, <<\h1F28, \h0399>>>>,
          <<\h1F99, <<\h1F29, \h0399>>>>, <<\h1F9A, <<\h1F2A, \h0399>>>>,
          <<\h1F9B, <<\h1F2B, \h0399>>>>, <<\h1F9C, <<\h1F2C, \h0399>>>>,
          <<\h1F9D, <<\h1F2D, \h0399>>>>, <<\h1F9E, <<\h1F2E, \h0399>>>>,
          <<\h1F9F, <<\h1F2F, \h0399>>>>, <<\h1FA0, <<\h1F68, \h0399>>>>,
          <<\h1FA1, <<\h1F69, \h0399>>>>, <<\h1FA2, <<\h1F6A, \h0399>>>>,
          <<\h1FA3, <<\h1F6B, \h0399>>>>, <<\h1FA4, <<\h1F6C, \h0399>>>>,
          <<\h1FA5, <<\h1F6D, \h0399>>>>, <<\h1FA6, <<\h1F6E, \h0399>>>>,
          <<\h1FA7, <<\h1F6F, \h0399>>>>, <<\h1FA8, <<\h1F68, \h0399>>>>,
          <<\h1FA9, <<\h1F69, \h0399>>>>, <<\h1FAA, <<\h1F6A, \h0399>>>>,
          <<\h1FAB, <<\h1F6B, \h0399>>>>, <<\h1FAC, <<\h1F6C, \h0399>>>>,
          <<\h1FAD, <<\h1F6D, \h0399>>>>, <<\h1FAE, <<\h1F6E, \h0399>>>>,
          <<\h1FAF, <<\h1F6F, \h0399>>>>, <<\h1FB2, <<\h1FBA, \h0399>>>>,
          <<\h1FB3, <<\h0391, \h0399>>>>, <<\h1FB4, <<\h0386, \h0399>>>>,
          <<\h1FB6, <<\h0391, \h0342>>>>, <<\h1FB7, <<\h0391, \h0342, \h0399>>>>,
          <<\h1FBC, <<\h0391, \h0399>>>>, <<\h1FC2, <<\h1FCA, \h0399>>>>,
          <<\h1FC3, <<\h0397, \h0399>>>>, <<\h1FC4, <<\h0389, \h0399>>>>,
          <<\h1FC6, <<\h0397, \h0342>>>>, <<\h1FC7, <<\h0397, \h0342, \h0399>>>>,
          <<\h1FCC, <<\h0397, \h0399>>>>, <<\h1FD2, <<\h0399, \h0308, \h0300>>>>,
          <<\h1FD3, <<\h0399, \h0308, \h0301>>>>, <<\h1FD6, <<\h0399, \h0342>>>>,
          <<\h1FD7, <<\h0399, \h0308, \h0342>>>>, <<\h1FE2, <<\h03A5, \h0308, \h0300>>>>,
          <<\h1FE3, <<\h03A5, \h0308, \h0301>>>>, <<\h1FE4, <<\h03A1, \h0313>>>>,
          <<\h1FE6, <<\h03A5, \h0342>>>>, <<\h1FE7, <<\h03A5, \h0308, \h0342>>>>,
          <<\h1FF2, <<\h1FFA, \h0399>>>>, <<\h1FF3, <<\h03A9, \h0399>>>>,
          <<\h1FF4, <<\h038F, \h0399>>>>, <<\h1FF6, <<\h03A9, \h0342>>>>,
          <<\h1FF7, <<\h03A9, \h0342, \h0399>>>>, <<\h1FFC, <<\h03A9, \h0399>>>>,
          <<\hFB00, <<\h0046, \h0046>>>>, <<\hFB01, <<\h0046, \h0049>>>>,
          <<\hFB02, <<\h0046, \h004C>>>>, <<\hFB03, <<\h0046, \h0046, \h0049>>>>,
          <<\hFB04, <<\h0046, \h0046, \h004C>>>>, <<\hFB05, <<\h0053, \h0054>>>>,
          <<\hFB06, <<\h0053, \h0054>>>>, <<\hFB13, <<\h0544, \h0546>>>>,
          <<\hFB14, <<\h0544, \h0535>>>>, <<\hFB15, <<\h0544, \h053B>>>>,
          <<\hFB16, <<\h054E, \h0546>>>>, <<\hFB17, <<\h0544, \h053D>>>> })

\* the characters with the property Case_Ignorable (Unicode 17): toLowerCase
\* looks past them when it decides whether a capital sigma ends a word
CaseIgnorable ==
    UNION { { Units(cp) : cp \in r[1]..r[2] } : r \in
        { <<\h0027, \h0027>>, <<\h002E, \h002E>>, <<\h003A, \h003A>>, <<\h005E, \h005E>>,
          <<\h0060, \h0060>>, <<\h00A8, \h00A8>>, <<\h00AD, \h00AD>>, <<\h00AF, \h00AF>>,
          <<\h00B4, \h00B4>>, <<\h00B7, \h00B8>>, <<\h02B0, \h036F>>, <<\h0374, \h0375>>,
          <<\h037A, \h037A>>, <<\h0384, \h0385>>, <<\h0387, \h0387>>, <<\h0483, \h0489>>,
          <<\h0559, \h0559>>, <<\h055F, \h055F>>, <<\h0591, \h05BD>>, <<\h05BF, \h05BF>>,
          <<\h05C1, \h05C2>>, <<\h05C4, \h05C5>>, <<\h05C7, \h05C7>>, <<\h05F4, \h05F4>>,
          <<\h0600, \h0605>>, <<\h0610, \h061A>>, <<\h061C, \h061C>>, <<\h0640, \h0640>>,
          <<\h064B, \h065F>>, <<\h0670, \h0670>>, <<\h06D6, \h06DD>>, <<\h06DF, \h06E8>>,
          <<\h06EA, \h06ED>>, <<\h070F, \h070F>>, <<\h0711, \h0711>>, <<\h0730, \h074A>>,
          <<\h07A6, \h07B0>>, <<\h07EB, \h07F5>>, <<\h07FA, \h07FA>>, <<\h07FD, \h07FD>>,
          <<\h0816, \h082D>>, <<\h0859, \h085B>>, <<\h0888, \h0888>>, <<\h0890, \h0891>>,
          <<\h0897, \h089F>>, <<\h08C9, \h0902>>, <<\h093A, \h093A>>, <<\h093C, \h093C>>,
          <<\h0941, \h0948>>, <<\h094D, \h094D>>, <<\h0951, \h0957>>, <<\h0962, \h0963>>,
          <<\h0971, \h0971>>, <<\h0981, \h0981>>, <<\h09BC, \h09BC>>, <<\h09C1, \h09C4>>,
          <<\h09CD, \h09CD>>, <<\h09E2, \h09E3>>, <<\h09FE, \h09FE>>, <<\h0A01, \h0A02>>,
          <<\h0A3C, \h0A3C>>, <<\h0A41, \h0A42>>, <<\h0A47, \h0A48>>, <<\h0A4B, \h0A4D>>,
          <<\h0A51, \h0A51>>, <<\h0A70, \h0A71>>, <<\h0A75, \h0A75>>, <<\h0A81, \h0A82>>,
          <<\h0ABC, \h0ABC>>, <<\h0AC1, \h0AC5>>, <<\h0AC7, \h0AC8>>, <<\h0ACD, \h0ACD>>,
          <<\h0AE2, \h0AE3>>, <<\h0AFA, \h0AFF>>, <<\h0B01, \h0B01>>, <<\h0B3C, \h0B3C>>,
          <<\h0B3F, \h0B3F>>, <<\h0B41, \h0B44>>, <<\h0B4D, \h0B4D>>, <<\h0B55, \h0B56>>,
          <<\h0B62, \h0B63>>, <<\h0B82, \h0B82>>, <<\h0BC0, \h0BC0>>, <<\h0BCD, \h0BCD>>,
          <<\h0C00, \h0C00>>, <<\h0C04, \h0C04>>, <<\h0C3C, \h0C3C>>, <<\h0C3E, \h0C40>>,
          <<\h0C46, \h0C48>>, <<\h0C4A, \h0C4D>>, <<\h0C55, \h0C56>>, <<\h0C62, \h0C63>>,
          <<\h0C81, \h0C81>>, <<\h0CBC, \h0CBC>>, <<\h0CBF, \h0CBF>>, <<\h0CC6, \h0CC6>>,
          <<\h0CCC, \h0CCD>>, <<\h0CE2, \h0CE3>>, <<\h0D00, \h0D01>>, <<\h0D3B, \h0D3C>>,
          <<\h0D41, \h0D44>>, <<\h0D4D, \h0D4D>>, <<\h0D62, \h0D63>>, <<\h0D81, \h0D81>>,
          <<\h0DCA, \h0DCA>>, <<\h0DD2, \h0DD4>>, <<\h0DD6, \h0DD6>>, <<\h0E31, \h0E31>>,
          <<\h0E34, \h0E3A>>, <<\h0E46, \h0E4E>>, <<\h0EB1, \h0EB1>>, <<\h0EB4, \h0EBC>>,
          <<\h0EC6, \h0EC6>>, <<\h0EC8, \h0ECE>>, <<\h0F18, \h0F19>>, <<\h0F35, \h0F35>>,
          <<\h0F37, \h0F37>>, <<\h0F39, \h0F39>>, <<\h0F71, \h0F7E>>, <<\h0F80, \h0F84>>,
          <<\h0F86, \h0F87>>, <<\h0F8D, \h0F97>>, <<\h0F99, \h0FBC>>, <<\h0FC6, \h0FC6>>,
          <<\h102D, \h1030>>, <<\h1032, \h1037>>, <<\h1039, \h103A>>, <<\h103D, \h103E>>,
          <<\h1058, \h1059>>, <<\h105E, \h1060>>, <<\h1071, \h1074>>, <<\h1082, \h1082>>,
          <<\h1085, \h1086>>, <<\h108D, \h108D>>, <<\h109D, \h109D>>, <<\h10FC, \h10FC>>,
          <<\h135D, \h135F>>, <<\h1712, \h1714>>, <<\h1732, \h1733>>, <<\h1752, \h1753>>,
          <<\h1772, \h1773>>, <<\h17B4, \h17B5>>, <<\h17B7, \h17BD>>, <<\h17C6, \h17C6>>,
          <<\h17C9, \h17D3>>, <<\h17D7, \h17D7>>, <<\h17DD, \h17DD>>, <<\h180B, \h180F>>,
          <<\h1843, \h1843>>, <<\h1885, \h1886>>, <<\h18A9, \h18A9>>, <<\h1920, \h1922>>,
          <<\h1927, \h1928>>, <<\h1932, \h1932>>, <<\h1939, \h193B>>, <<\h1A17, \h1A18>>,
          <<\h1A1B, \h1A1B>>, <<\h1A56, \h1A56>>, <<\h1A58, \h1A5E>>, <<\h1A60, \h1A60>>,
          <<\h1A62, \h1A62>>, <<\h1A65, \h1A6C>>, <<\h1A73, \h1A7C>>, <<\h1A7F, \h1A7F>>,
          <<\h1AA7, \h1AA7>>, <<\h1AB0, \h1ADD>>, <<\h1AE0, \h1AEB>>, <<\h1B00, \h1B03>>,
          <<\h1B34, \h1B34>>, <<\h1B36, \h1B3A>>, <<\h1B3C, \h1B3C>>, <<\h1B42, \h1B42>>,
          <<\h1B6B, \h1B73>>, <<\h1B80, \h1B81>>, <<\h1BA2, \h1BA5>>, <<\h1BA8, \h1BA9>>,
          <<\h1BAB, \h1BAD>>, <<\h1BE6, \h1BE6>>, <<\h1BE8, \h1BE9>>, <<\h1BED, \h1BED>>,
          <<\h1BEF, \h1BF1>>, <<\h1C2C, \h1C33>>, <<\h1C36, \h1C37>>, <<\h1C78, \h1C7D>>,
          <<\h1CD0, \h1CD2>>, <<\h1CD4, \h1CE0>>, <<\h1CE2, \h1CE8>>, <<\h1CED, \h1CED>>,
          <<\h1CF4, \h1CF4>>, <<\h1CF8, \h1CF9>>, <<\h1D2C, \h1D6A>>, <<\h1D78, \h1D78>>,
          <<\h1D9B, \h1DFF>>, <<\h1FBD, \h1FBD>>, <<\h1FBF, \h1FC1>>, <<\h1FCD, \h1FCF>>,
          <<\h1FDD, \h1FDF>>, <<\h1FED, \h1FEF>>, <<\h1FFD, \h1FFE>>, <<\h200B, \h200F>>,
          <<\h2018, \h2019>>, <<\h2024, \h2024>>, <<\h2027, \h2027>>, <<\h202A, \h202E>>,
          <<\h2060, \h2064>>, <<\h2066, \h206F>>, <<\h2071, \h2071>>, <<\h207F, \h207F>>,
          <<\h2090, \h209C>>, <<\h20D0, \h20F0>>, <<\h2C7C, \h2C7D>>, <<\h2CEF, \h2CF1>>,
          <<\h2D6F, \h2D6F>>, <<\h2D7F, \h2D7F>>, <<\h2DE0, \h2DFF>>, <<\h2E2F, \h2E2F>>,
          <<\h3005, \h3005>>, <<\h302A, \h302D>>, <<\h3031, \h3035>>, <<\h303B, \h303B>>,
          <<\h3099, \h309E>>, <<\h30FC, \h30FE>>, <<\hA015, \hA015>>, <<\hA4F8, \hA4FD>>,
          <<\hA60C, \hA60C>>, <<\hA66F, \hA672>>, <<\hA674, \hA67D>>, <<\hA67F, \hA67F>>,
          <<\hA69C, \hA69F>>, <<\hA6F0, \hA6F1>>, <<\hA700, \hA721>>, <<\hA770, \hA770>>,
          <<\hA788, \hA78A>>, <<\hA7F1, \hA7F4>>, <<\hA7F8, \hA7F9>>, <<\hA802, \hA802>>,
          <<\hA806, \hA806>>, <<\hA80B, \hA80B>>, <<\hA825, \hA826>>, <<\hA82C, \hA82C>>,
          <<\hA8C4, \hA8C5>>, <<\hA8E0, \hA8F1>>, <<\hA8FF, \hA8FF>>, <<\hA926, \hA92D>>,
          <<\hA947, \hA951>>, <<\hA980, \hA982>>, <<\hA9B3, \hA9B3>>, <<\hA9B6, \hA9B9>>,
          <<\hA9BC, \hA9BD>>, <<\hA9CF, \hA9CF>>, <<\hA9E5, \hA9E6>>, <<\hAA29, \hAA2E>>,
          <<\hAA31, \hAA32>>, <<\hAA35, \hAA36>>, <<\hAA43, \hAA43>>, <<\hAA4C, \hAA4C>>,
          <<\hAA70, \hAA70>>, <<\hAA7C, \hAA7C>>, <<\hAAB0, \hAAB0>>, <<\hAAB2, \hAAB4>>,
          <<\hAAB7, \hAAB8>>, <<\hAABE, \hAABF>>, <<\hAAC1, \hAAC1>>, <<\hAADD, \hAADD>>,
          <<\hAAEC, \hAAED>>, <<\hAAF3, \hAAF4>>, <<\hAAF6, \hAAF6>>, <<\hAB5B, \hAB5F>>,
          <<\hAB69, \hAB6B>>, <<\hABE5, \hABE5>>, <<\hABE8, \hABE8>>, <<\hABED, \hABED>>,
          <<\hFB1E, \hFB1E>>, <<\hFBB2, \hFBC2>>, <<\hFE00, \hFE0F>>, <<\hFE13, \hFE13>>,
          <<\hFE20, \hFE2F>>, <<\hFE52, \hFE52>>, <<\hFE55, \hFE55>>, <<\hFEFF, \hFEFF>>,
          <<\hFF07, \hFF07>>, <<\hFF0E, \hFF0E>>, <<\hFF1A, \hFF1A>>, <<\hFF3E, \hFF3E>>,
          <<\hFF40, \hFF40>>, <<\hFF70, \hFF70>>, <<\hFF9E, \hFF9F>>, <<\hFFE3, \hFFE3>>,
          <<\hFFF9, \hFFFB>>, <<\h101FD, \h101FD>>, <<\h102E0, \h102E0>>,
          <<\h10376, \h1037A>>, <<\h10780, \h10785>>, <<\h10787, \h107B0>>,
          <<\h107B2, \h107BA>>, <<\h10A01, \h10A03>>, <<\h10A05, \h10A06>>,
          <<\h10A0C, \h10A0F>>, <<\h10A38, \h10A3A>>, <<\h10A3F, \h10A3F>>,
          <<\h10AE5, \h10AE6>>, <<\h10D24, \h10D27>>, <<\h10D4E, \h10D4E>>,
          <<\h10D69, \h10D6D>>, <<\h10D6F, \h10D6F>>, <<\h10EAB, \h10EAC>>,
          <<\h10EC5, \h10EC5>>, <<\h10EFA, \h10EFF>>, <<\h10F46, \h10F50>>,
          <<\h10F82, \h10F85>>, <<\h11001, \h11001>>, <<\h11038, \h11046>>,
          <<\h11070, \h11070>>, <<\h11073, \h11074>>, <<\h1107F, \h11081>>,
          <<\h110B3, \h110B6>>, <<\h110B9, \h110BA>>, <<\h110BD, \h110BD>>,
          <<\h110C2, \h110C2>>, <<\h110CD, \h110CD>>, <<\h11100, \h11102>>,
          <<\h11127, \h1112B>>, <<\h1112D, \h11134>>, <<\h11173, \h11173>>,
          <<\h11180, \h11181>>, <<\h111B6, \h111BE>>, <<\h111C9, \h111CC>>,
          <<\h111CF, \h111CF>>, <<\h1122F, \h11231>>, <<\h11234, \h11234>>,
          <<\h11236, \h11237>>, <<\h1123E, \h1123E>>, <<\h11241, \h11241>>,
          <<\h112DF, \h112DF>>, <<\h112E3, \h112EA>>, <<\h11300, \h11301>>,
          <<\h1133B, \h1133C>>, <<\h11340, \h11340>>, <<\h11366, \h1136C>>,
          <<\h11370, \h11374>>, <<\h113BB, \h113C0>>, <<\h113CE, \h113CE>>,
          <<\h113D0, \h113D0>>, <<\h113D2, \h113D2>>, <<\h113E1, \h113E2>>,
          <<\h11438, \h1143F>>, <<\h11442, \h11444>>, <<\h11446, \h11446>>,
          <<\h1145E, \h1145E>>, <<\h114B3, \h114B8>>, <<\h114BA, \h114BA>>,
          <<\h114BF, \h114C0>>, <<\h114C2, \h114C3>>, <<\h115B2, \h115B5>>,
          <<\h115BC, \h115BD>>, <<\h115BF, \h115C0>>, <<\h115DC, \h115DD>>,
          <<\h11633, \h1163A>>, <<\h1163D, \h1163D>>, <<\h1163F, \h11640>>,
          <<\h116AB, \h116AB>>, <<\h116AD, \h116AD>>, <<\h116B0, \h116B5>>,
          <<\h116B7, \h116B7>>, <<\h1171D, \h1171D>>, <<\h1171F, \h1171F>>,
          <<\h11722, \h11725>>, <<\h11727, \h1172B>>, <<\h1182F, \h11837>>,
          <<\h11839, \h1183A>>, <<\h1193B, \h1193C>>, <<\h1193E, \h1193E>>,
          <<\h11943, \h11943>>, <<\h119D4, \h119D7>>, <<\h119DA, \h119DB>>,
          <<\h119E0, \h119E0>>, <<\h11A01, \h11A0A>>, <<\h11A33, \h11A38>>,
          <<\h11A3B, \h11A3E>>, <<\h11A47, \h11A47>>, <<\h11A51, \h11A56>>,
          <<\h11A59, \h11A5B>>, <<\h11A8A, \h11A96>>, <<\h11A98, \h11A99>>,
          <<\h11B60, \h11B60>>, <<\h11B62, \h11B64>>, <<\h11B66, \h11B66>>,
          <<\h11C30, \h11C36>>, <<\h11C38, \h11C3D>>, <<\h11C3F, \h11C3F>>,
          <<\h11C92, \h11CA7>>, <<\h11CAA, \h11CB0>>, <<\h11CB2, \h11CB3>>,
          <<\h11CB5, \h11CB6>>, <<\h11D31, \h11D36>>, <<\h11D3A, \h11D3A>>,
          <<\h11D3C, \h11D3D>>, <<\h11D3F, \h11D45>>, <<\h11D47, \h11D47>>,
          <<\h11D90, \h11D91>>, <<\h11D95, \h11D95>>, <<\h11D97, \h11D97>>,
          <<\h11DD9, \h11DD9>>, <<\h11EF3, \h11EF4>>, <<\h11F00, \h11F01>>,
          <<\h11F36, \h11F3A>>, <<\h11F40, \h11F40>>, <<\h11F42, \h11F42>>,
          <<\h11F5A, \h11F5A>>, <<\h13430, \h13440>>, <<\h13447, \h13455>>,
          <<\h1611E, \h16129>>, <<\h1612D, \h1612F>>, <<\h16AF0, \h16AF4>>,
          <<\h16B30, \h16B36>>, <<\h16B40, \h16B43>>, <<\h16D40, \h16D42>>,
          <<\h16D6B, \h16D6C>>, <<\h16F4F, \h16F4F>>, <<\h16F8F, \h16F9F>>,
          <<\h16FE0, \h16FE1>>, <<\h16FE3, \h16FE4>>, <<\h16FF2, \h16FF3>>,
          <<\h1AFF0, \h1AFF3>>, <<\h1AFF5, \h1AFFB>>, <<\h1AFFD, \h1AFFE>>,
          <<\h1BC9D, \h1BC9E>>, <<\h1BCA0, \h1BCA3>>, <<\h1CF00, \h1CF2D>>,
          <<\h1CF30, \h1CF46>>, <<\h1D167, \h1D169>>, <<\h1D173, \h1D182>>,
          <<\h1D185, \h1D18B>>, <<\h1D1AA, \h1D1AD>>, <<\h1D242, \h1D244>>,
          <<\h1DA00, \h1DA36>>, <<\h1DA3B, \h1DA6C>>, <<\h1DA75, \h1DA75>>,
          <<\h1DA84, \h1DA84>>, <<\h1DA9B, \h1DA9F>>, <<\h1DAA1, \h1DAAF>>,
          <<\h1E000, \h1E006>>, <<\h1E008, \h1E018>>, <<\h1E01B, \h1E021>>,
          <<\h1E023, \h1E024>>, <<\h1E026, \h1E02A>>, <<\h1E030, \h1E06D>>,
          <<\h1E08F, \h1E08F>>, <<\h1E130, \h1E13D>>, <<\h1E2AE, \h1E2AE>>,
          <<\h1E2EC, \h1E2EF>>, <<\h1E4EB, \h1E4EF>>, <<\h1E5EE, \h1E5EF>>,
          <<\h1E6E3, \h1E6E3>>, <<\h1E6E6, \h1E6E6>>, <<\h1E6EE, \h1E6EF>>,
          <<\h1E6F5, \h1E6F5>>, <<\h1E6FF, \h1E6FF>>, <<\h1E8D0, \h1E8D6>>,
          <<\h1E944, \h1E94B>>, <<\h1F3FB, \h1F3FF>>, <<\hE0001, \hE0001>>,
          <<\hE0020, \hE007F>>, <<\hE0100, \hE01EF>> } }

\* the characters with the property Cased (Unicode 17) that are not
\* Case_Ignorable: the
\* letters that have another case, and the letters of one case only
Cased ==
    UNION { { Units(cp) : cp \in r[1]..r[2] } : r \in
        { <<\h0041, \h005A>>, <<\h0061, \h007A>>, <<\h00AA, \h00AA>>, <<\h00B5, \h00B5>>,
          <<\h00BA, \h00BA>>, <<\h00C0, \h00D6>>, <<\h00D8, \h00F6>>, <<\h00F8, \h01BA>>,
          <<\h01BC, \h01BF>>, <<\h01C4, \h0293>>, <<\h0296, \h02AF>>, <<\h0370, \h0373>>,
          <<\h0376, \h0377>>, <<\h037B, \h037D>>, <<\h037F, \h037F>>, <<\h0386, \h0386>>,
          <<\h0388, \h038A>>, <<\h038C, \h038C>>, <<\h038E, \h03A1>>, <<\h03A3, \h03F5>>,
          <<\h03F7, \h0481>>, <<\h048A, \h052F>>, <<\h0531, \h0556>>, <<\h0560, \h0588>>,
          <<\h10A0, \h10C5>>, <<\h10C7, \h10C7>>, <<\h10CD, \h10CD>>, <<\h10D0, \h10FA>>,
          <<\h10FD, \h10FF>>, <<\h13A0, \h13F5>>, <<\h13F8, \h13FD>>, <<\h1C80, \h1C8A>>,
          <<\h1C90, \h1CBA>>, <<\h1CBD, \h1CBF>>, <<\h1D00, \h1D2B>>, <<\h1D6B, \h1D77>>,
          <<\h1D79, \h1D9A>>, <<\h1E00, \h1F15>>, <<\h1F18, \h1F1D>>, <<\h1F20, \h1F45>>,
          <<\h1F48, \h1F4D>>, <<\h1F50, \h1F57>>, <<\h1F59, \h1F59>>, <<\h1F5B, \h1F5B>>,
          <<\h1F5D, \h1F5D>>, <<\h1F5F, \h1F7D>>, <<\h1F80, \h1FB4>>, <<\h1FB6, \h1FBC>>,
          <<\h1FBE, \h1FBE>>, <<\h1FC2, \h1FC4>>, <<\h1FC6, \h1FCC>>, <<\h1FD0, \h1FD3>>,
          <<\h1FD6, \h1FDB>>, <<\h1FE0, \h1FEC>>, <<\h1FF2, \h1FF4>>, <<\h1FF6, \h1FFC>>,
          <<\h2102, \h2102>>, <<\h2107, \h2107>>, <<\h210A, \h2113>>, <<\h2115, \h2115>>,
          <<\h2119, \h211D>>, <<\h2124, \h2124>>, <<\h2126, \h2126>>, <<\h2128, \h2128>>,
          <<\h212A, \h212D>>, <<\h212F, \h2134>>, <<\h2139, \h2139>>, <<\h213C, \h213F>>,
          <<\h2145, \h2149>>, <<\h214E, \h214E>>, <<\h2160, \h217F>>, <<\h2183, \h2184>>,
          <<\h24B6, \h24E9>>, <<\h2C00, \h2C7B>>, <<\h2C7E, \h2CE4>>, <<\h2CEB, \h2CEE>>,
          <<\h2CF2, \h2CF3>>, <<\h2D00, \h2D25>>, <<\h2D27, \h2D27>>, <<\h2D2D, \h2D2D>>,
          <<\hA640, \hA66D>>, <<\hA680, \hA69B>>, <<\hA722, \hA76F>>, <<\hA771, \hA787>>,
          <<\hA78B, \hA78E>>, <<\hA790, \hA7DC>>, <<\hA7F5, \hA7F6>>, <<\hA7FA, \hA7FA>>,
          <<\hAB30, \hAB5A>>, <<\hAB60, \hAB68>>, <<\hAB70, \hABBF>>, <<\hFB00, \hFB06>>,
          <<\hFB13, \hFB17>>, <<\hFF21, \hFF3A>>, <<\hFF41, \hFF5A>>, <<\h10400, \h1044F>>,
          <<\h104B0, \h104D3>>, <<\h104D8, \h104FB>>, <<\h10570, \h1057A>>,
          <<\h1057C, \h1058A>>, <<\h1058C, \h10592>>, <<\h10594, \h10595>>,
          <<\h10597, \h105A1>>, <<\h105A3, \h105B1>>, <<\h105B3, \h105B9>>,
          <<\h105BB, \h105BC>>, <<\h10C80, \h10CB2>>, <<\h10CC0, \h10CF2>>,
          <<\h10D50, \h10D65>>, <<\h10D70, \h10D85>>, <<\h118A0, \h118DF>>,
          <<\h16E40, \h16E7F>>, <<\h16EA0, \h16EB8>>, <<\h16EBB, \h16ED3>>,
          <<\h1D400, \h1D454>>, <<\h1D456, \h1D49C>>, <<\h1D49E, \h1D49F>>,
          <<\h1D4A2, \h1D4A2>>, <<\h1D4A5, \h1D4A6>>, <<\h1D4A9, \h1D4AC>>,
          <<\h1D4AE, \h1D4B9>>, <<\h1D4BB, \h1D4BB>>, <<\h1D4BD, \h1D4C3>>,
          <<\h1D4C5, \h1D505>>, <<\h1D507, \h1D50A>>, <<\h1D50D, \h1D514>>,
          <<\h1D516, \h1D51C>>, <<\h1D51E, \h1D539>>, <<\h1D53B, \h1D53E>>,
          <<\h1D540, \h1D544>>, <<\h1D546, \h1D546>>, <<\h1D54A, \h1D550>>,
          <<\h1D552, \h1D6A5>>, <<\h1D6A8, \h1D6C0>>, <<\h1D6C2, \h1D6DA>>,
          <<\h1D6DC, \h1D6FA>>, <<\h1D6FC, \h1D714>>, <<\h1D716, \h1D734>>,
          <<\h1D736, \h1D74E>>, <<\h1D750, \h1D76E>>, <<\h1D770, \h1D788>>,
          <<\h1D78A, \h1D7A8>>, <<\h1D7AA, \h1D7C2>>, <<\h1D7C4, \h1D7CB>>,
          <<\h1DF00, \h1DF09>>, <<\h1DF0B, \h1DF1E>>, <<\h1DF25, \h1DF2A>>,
          <<\h1E900, \h1E943>>, <<\h1F130, \h1F149>>, <<\h1F150, \h1F169>>,
          <<\h1F170, \h1F189>> } }

\* what the code unit at position i of s becomes under a case mapping: a
\* character is one code unit, or the two of a surrogate pair
caseOfUnit(s, i, table) ==
    IF i < Len(s) /\ <<s[i], s[i + 1]>> \in DOMAIN table
    THEN <<table[<<s[i], s[i + 1]>>][1]>>
    ELSE IF i > 1 /\ <<s[i - 1], s[i]>> \in DOMAIN table
    THEN <<table[<<s[i - 1], s[i]>>][2]>>
    ELSE IF <<s[i]>> \in DOMAIN table THEN table[<<s[i]>>]
    ELSE <<s[i]>>

\* String.prototype.toLowerCase: every character becomes its lower case. A
\* capital sigma becomes the final small sigma when a cased letter stands
\* before it, with nothing but case-ignorable characters between, and no cased
\* letter after it in the same way
toLowerCase(s) ==
    LET RECURSIVE casedLetterNext(_, _, _, _)
        \* from position j in direction d (1 onwards, -1 backwards): a cased
        \* letter comes, with nothing but case-ignorable characters before it
        casedLetterNext(j, d, ignorable, cased) ==
            LET two == IF d = 1 /\ j < Len(s) THEN <<s[j], s[j + 1]>>
                       ELSE IF d = -1 /\ j > 1 THEN <<s[j - 1], s[j]>>
                       ELSE <<>>
            IN  IF j < 1 \/ j > Len(s) THEN FALSE
                ELSE IF two \in ignorable
                THEN casedLetterNext(j + (2 * d), d, ignorable, cased)
                ELSE IF <<s[j]>> \in ignorable
                THEN casedLetterNext(j + d, d, ignorable, cased)
                ELSE two \in cased \/ <<s[j]>> \in cased
        final(i, ignorable, cased) ==
            /\ s[i] = "U+03A3"
            /\ casedLetterNext(i - 1, -1, ignorable, cased)
            /\ ~casedLetterNext(i + 1, 1, ignorable, cased)
        lower(i, table) ==
            IF s[i] = "U+03A3" /\ final(i, CaseIgnorable, Cased) THEN <<"U+03C2">>
            ELSE caseOfUnit(s, i, table)
    IN  Flatten([i \in 1..Len(s) |-> lower(i, lowerCaseOf)])

\* String.prototype.toUpperCase: every character becomes its upper case
toUpperCase(s) == Flatten([i \in 1..Len(s) |-> caseOfUnit(s, i, upperCaseOf)])

\* what a regular expression with the i flag compares a string with: the letters
\* a-z count as A-Z, and no code unit outside ASCII counts as an ASCII letter
foldCase(s) ==
    [i \in 1..Len(s) |-> IF s[i] \in UpperCase THEN lowerCaseOf[<<s[i]>>][1] ELSE s[i]]

\* getFileType(filename): the extension after the last ".", in lower case
getFileType(filename) ==
    LET last(pieces) == pieces[Len(pieces)]
        typeOf(ext) ==
            IF ext = <<"p", "d", "f">> THEN "pdf"
            ELSE IF ext \in { <<"t", "x", "t">>, <<"t", "e", "x", "t">>,
                              <<"m", "d">>, <<"m", "a", "r", "k", "d", "o", "w", "n">> }
            THEN "txt"
            ELSE "unknown"
    IN  typeOf(toLowerCase(last(Split(filename, "."))))

\* const maxSize = 50 * 1024 * 1024
maxSize == 50 * 1024 * 1024

\* mutant: the size limit not checked
validateFileAnySize(file) ==
    LET validation(type) ==
            IF type = "unknown"
            THEN [valid |-> FALSE, type |-> type,
                  error |-> "Unsupported file type. Please upload a PDF or TXT file."]
            ELSE [valid |-> TRUE, type |-> type]
    IN  validation(getFileType(file.name))

\* validateFile(file)
validateFile(file) ==
    LET validation(type) ==
            IF type = "unknown"
            THEN [valid |-> FALSE, type |-> type,
                  error |-> "Unsupported file type. Please upload a PDF or TXT file."]
            ELSE IF file.size > maxSize
            THEN [valid |-> FALSE, type |-> type,
                  error |-> "File too large. Maximum size is 50MB."]
            ELSE [valid |-> TRUE, type |-> type]
    IN  validation(getFileType(file.name))

(***************************************************************************)
(* textParser.js: the text of a PDF file (extractTextFromPDF)              *)
(***************************************************************************)
\* \d
Digits == {"0", "1", "2", "3", "4", "5", "6", "7", "8", "9"}
\* [ivxlc] under the i flag
RomanDigits == {"i", "v", "x", "l", "c", "I", "V", "X", "L", "C"}

RECURSIVE RunEnd(_, _, _)
\* the position after the longest run of characters of S that begins at i
RunEnd(s, i, S) == IF i > Len(s) \/ s[i] \notin S THEN i ELSE RunEnd(s, i + 1, S)

\* /^word/i.test(s) for a word in lower case
startsWithWord(s, word) ==
    Len(s) >= Len(word) /\ foldCase(SubSeq(s, 1, Len(word))) = word

\* /^word\s+[class]/i.test(s) for a word in lower case
wordThenClass(s, word, class) ==
    /\ startsWithWord(s, word)
    /\ LET j == FirstNonWs(s, Len(word) + 1)
       IN  j > Len(word) + 1 /\ j <= Len(s) /\ s[j] \in class

RECURSIVE outlineEnd(_, _)
\* the position after (\.\d+)* matched from i
outlineEnd(s, i) ==
    IF i < Len(s) /\ s[i] = "." /\ s[i + 1] \in Digits
    THEN outlineEnd(s, RunEnd(s, i + 1, Digits))
    ELSE i

\* /^\d+(\.\d+)*\s+[A-Z]/.test(s)
isNumberedTitle(s) ==
    /\ s # <<>> /\ s[1] \in Digits
    /\ LET p == outlineEnd(s, RunEnd(s, 1, Digits))
           j == FirstNonWs(s, p)
       IN  j > p /\ j <= Len(s) /\ s[j] \in UpperCase

\* words.every(w => w === w.toUpperCase() && /[A-Z]/.test(w))
allCaps(words) ==
    \A k \in 1..Len(words) :
        /\ words[k] = toUpperCase(words[k])
        /\ \E i \in 1..Len(words[k]) : words[k][i] \in UpperCase

\* the keywords of pattern 4; "acknowledgments?" matches from "acknowledgment" on
HeadingKeywords ==
    { <<"i", "n", "t", "r", "o", "d", "u", "c", "t", "i", "o", "n">>,
      <<"c", "o", "n", "c", "l", "u", "s", "i", "o", "n">>,
      <<"a", "b", "s", "t", "r", "a", "c", "t">>,
      <<"s", "u", "m", "m", "a", "r", "y">>,
      <<"o", "v", "e", "r", "v", "i", "e", "w">>,
      <<"b", "a", "c", "k", "g", "r", "o", "u", "n", "d">>,
      <<"m", "e", "t", "h", "o", "d", "o", "l", "o", "g", "y">>,
      <<"r", "e", "s", "u", "l", "t", "s">>,
      <<"d", "i", "s", "c", "u", "s", "s", "i", "o", "n">>,
      <<"r", "e", "f", "e", "r", "e", "n", "c", "e", "s">>,
      <<"a", "p", "p", "e", "n", "d", "i", "x">>,
      <<"a", "c", "k", "n", "o", "w", "l", "e", "d", "g", "m", "e", "n", "t">> }

\* /^[IVXLC]+\.\s+[A-Z]/i.test(s)
isRomanTitle(s) ==
    LET p == RunEnd(s, 1, RomanDigits)
        j == FirstNonWs(s, p + 1)
    IN  /\ p > 1 /\ p <= Len(s) /\ s[p] = "."
        /\ j > p + 1 /\ j <= Len(s)
        /\ \E letter \in UpperCase : foldCase(<<s[j]>>) = foldCase(<<letter>>)

\* the patterns of detectHeadingPattern, tried on the trimmed text
matchesHeadingPattern(trimmed) ==
    \/ wordThenClass(trimmed, <<"c", "h", "a", "p", "t", "e", "r">>, Digits \cup RomanDigits)
    \/ wordThenClass(trimmed, <<"s", "e", "c", "t", "i", "o", "n">>, Digits \cup {"."})
    \/ isNumberedTitle(trimmed)
    \/ /\ Len(SplitWhitespace(trimmed)) >= 2
       /\ Len(SplitWhitespace(trimmed)) <= 8
       /\ allCaps(SplitWhitespace(trimmed))
    \/ \E word \in HeadingKeywords : startsWithWord(trimmed, word)
    \/ isRomanTitle(trimmed)

\* detectHeadingPattern(text)
detectHeadingPattern(t) == Len(Trim(t)) >= 2 /\ matchesHeadingPattern(Trim(t))

\* heights: the heights of the items that are greater than 0
positiveHeights(allItems) ==
    SelectSeq([k \in 1..Len(allItems) |-> allItems[k].height], LAMBDA h : h > 0)

\* The heights of the model are whole numbers, the numbers of the program are
\* doubles. When h is exactly 1.2 times the mean, avgHeight is the double
\* nearest to 5h/6 and headingThreshold the double nearest to avgHeight times
\* the double 1.2, which is 1.2 - 2^-52 / 5. That product is below h by h/6
\* units of the last place of h, more or less the error of avgHeight: a third
\* of a unit of avgHeight's last place, downwards when 5h * 2^(51 - p) leaves
\* the remainder 1 on division by 3 and upwards when it leaves 2. So
\* headingThreshold is the double just below h exactly when avgHeight has the
\* exponent of h (5h >= 6 * 2^p) and was rounded downwards, and h otherwise.
thresholdBelow(h) ==
    LET RECURSIVE exponent(_)
        \* the exponent of the double n: 2^exponent <= n < 2^(exponent + 1)
        exponent(n) == IF n < 2 THEN 0 ELSE 1 + exponent(n \div 2)
        below(p) ==
            /\ 5 * h >= 6 * 2^p
            /\ ((2 * h) * (IF (51 - p) % 2 = 1 THEN 2 ELSE 1)) % 3 = 1
    IN  below(exponent(h))

\* isLargerFont: currentLineHeight > headingThreshold, where headingThreshold
\* is avgHeight * 1.2 and avgHeight the sum of the heights over their number.
\* Away from equality the doubles compare as the exact numbers do (both sides
\* multiplied by five times the number of heights); at equality the rounding of
\* the product decides
isLargerFont(currentLineHeight, allItems) ==
    LET n == Len(positiveHeights(allItems))
        sum == Sum(positiveHeights(allItems))
    IN  IF 5 * currentLineHeight * n = 6 * sum /\ n > 0
        THEN thresholdBelow(currentLineHeight)
        ELSE 5 * currentLineHeight * n > 6 * sum

\* isShortLine: lineText.split(/\s+/).length <= 8
isShortLine(lineText) == Len(SplitWhitespace(lineText)) <= 8

\* isHeading, for the line that flushLine is about to emit
isHeading(st, allItems) ==
    \/ isLargerFont(st.currentLineHeight, allItems) /\ isShortLine(Trim(st.currentLine))
    \/ detectHeadingPattern(Trim(st.currentLine))

\* what flushLine appends to fullText: the heading marker or the line as it is
emittedLine(st, allItems) ==
    IF isHeading(st, allItems)
    THEN <<"\n", "\n", "#", " ">> \o Trim(st.currentLine) \o <<"\n", "\n">>
    ELSE st.currentLine

\* flushLine(), on the loop variables st
flushLine(st, allItems) ==
    IF Trim(st.currentLine) = <<>> THEN st
    ELSE [st EXCEPT !.fullText = @ \o emittedLine(st, allItems),
                    !.currentLine = <<>>,
                    !.currentLineHeight = 0,
                    !.currentLineItems = <<>>]

\* the page break of the loop body: if (item.pageNum !== lastPageNum) { ... }
pageBreak(st, item, allItems) ==
    IF item.pageNum # st.lastPageNum
    THEN [flushLine(st, allItems) EXCEPT !.fullText = @ \o <<"\n", "\n">>,
                                         !.lastY = JSNull,
                                         !.lastPageNum = item.pageNum]
    ELSE st

\* Math.abs(item.y - lastY)
yDistance(st, item) ==
    IF item.y >= st.lastY.num THEN item.y - st.lastY.num ELSE st.lastY.num - item.y

\* mutant: a distance of exactly 5 begins a new line
lineBreakFromFive(st, item, allItems) ==
    IF st.lastY # JSNull /\ yDistance(st, item) >= 5
    THEN [flushLine(st, allItems) EXCEPT
             !.fullText = @ \o (IF yDistance(st, item) > 15 THEN <<"\n", "\n">> ELSE <<" ">>)]
    ELSE st

\* the line break of the loop body: if (lastY !== null && Math.abs(...) > 5) { ... }
lineBreak(st, item, allItems) ==
    IF st.lastY # JSNull /\ yDistance(st, item) > 5
    THEN [flushLine(st, allItems) EXCEPT
             !.fullText = @ \o (IF yDistance(st, item) > 15 THEN <<"\n", "\n">> ELSE <<" ">>)]
    ELSE st

\* the end of the loop body: the item joins the current line
appendItem(st, item) ==
    [st EXCEPT !.currentLine = @ \o item.text,
               !.currentLineHeight = IF item.height > @ THEN item.height ELSE @,
               !.currentLineItems = Append(@, item),
               !.lastY = JSNum(item.y)]

\* one iteration of for (const item of allItems)
itemStep(st, item, allItems) ==
    appendItem(lineBreak(pageBreak(st, item, allItems), item, allItems), item)

\* .replace(/\n{4,}/g, '\n\n\n')
collapseBlankLines(s) ==
    Keep(s, LAMBDA i : ~(/\ i > 3 /\ s[i] = "\n" /\ s[i - 1] = "\n"
                         /\ s[i - 2] = "\n" /\ s[i - 3] = "\n"))

RECURSIVE joinHyphenated(_, _)
\* .replace(/-\n(\S)/g, '$1') from position i on, the matches taken left to right
joinHyphenated(s, i) ==
    IF i > Len(s) THEN <<>>
    ELSE IF i + 2 <= Len(s) /\ s[i] = "-" /\ s[i + 1] = "\n" /\ s[i + 2] \notin WhiteSpace
    THEN <<s[i + 2]>> \o joinHyphenated(s, i + 3)
    ELSE <<s[i]>> \o joinHyphenated(s, i + 1)

\* .replace(/\f/g, '\n\n')
formFeedsToBlankLines(s) ==
    Flatten([i \in 1..Len(s) |-> IF s[i] = "\f" THEN <<"\n", "\n">> ELSE <<s[i]>>])

\* .replace(/\n\n\n# /g, '\n\n# ')
tightenHeadings(s) ==
    Keep(s, LAMBDA i : ~(/\ i + 4 <= Len(s)
                         /\ SubSeq(s, i, i + 4) = <<"\n", "\n", "\n", "#", " ">>))

\* cleanText(text) of the PDF parser, one replace after the other
cleanPdfText(t) ==
    Trim(tightenHeadings(formFeedsToBlankLines(joinHyphenated(
        stripLeadingSpaces(collapseSpaces(collapseBlankLines(t))), 1))))

\* the loop variables of extractTextFromPDF before the second pass
pdfStart(allItems) ==
    [allItems |-> allItems, pos |-> 0, pc |-> "loop", result |-> <<>>,
     fullText |-> <<>>, lastY |-> JSNull, lastPageNum |-> 0,
     currentLine |-> <<>>, currentLineHeight |-> 0, currentLineItems |-> <<>>]

\* no PDF file is being read
PdfIdle == [pdfStart(<<>>) EXCEPT !.pc = "idle"]

(***************************************************************************)
(* The inputs the calls are made with                                      *)
(***************************************************************************)
\* bounds of the input families
MaxChars == 3
MaxPieces == 3
MaxLongPieces == 3

\* n copies of the string w
Repeat(w, n) == [i \in 1..(n * Len(w)) |-> w[((i - 1) % Len(w)) + 1]]

\* every sequence of at most n elements of S
SeqsUpTo(S, n) == UNION { [1..k -> S] : k \in 0..n }

\* every string of at most MaxChars characters over a marker, whitespace, a
\* letter and a full stop
CharAlphabet == {"#", " ", "\n", "\r", "a", "."}
CharTexts == SeqsUpTo(CharAlphabet, MaxChars)

\* texts made of at most MaxPieces phrases, heading lines and line breaks
Phrases ==
    { <<"D", "r", ".", " ", "S", "m", "i", "t", "h", " ",
        "a", "r", "r", "i", "v", "e", "d", ".", " ">>,
      <<"H", "e", " ", "l", "e", "f", "t", ".", "\n">>,
      <<"#", " ", "I", "n", "t", "r", "o", "\n">>,
      <<"#", "#", " ", "T", "w", "o", " ", "\n">>,
      <<"H", "e", "l", "l", "o", " ", "w", "o", "r", "l", "d", ".", " ",
        "T", "h", "i", "s", " ", "i", "s", " ", "a", " ", "t", "e", "s", "t", ".">>,
      <<"\n">> }
PhraseTexts == { Flatten(a) : a \in SeqsUpTo(Phrases, MaxPieces) }

\* one word that is, or looks like, an abbreviation, between other words
AbbreviationLike ==
    Abbreviations \cup
    { <<"d", "r", ".">>, <<"D", "r">>, <<"D", "r", "s", ".">>, <<"N", "o", ".">>,
      <<"D", "r", ".", ".">>, <<"e", "t", "c", "!">> }
AbbreviationTexts ==
    { pre \o w \o next \o <<"l", "e", "f", "t", ".">> :
        pre \in { <<>>, <<"H", "e", " ", "m", "e", "t", " ">>, <<"O", "k", ".", " ">> },
        w \in AbbreviationLike,
        next \in { <<" ">>, <<" ", "S", "m", "i", "t", "h", " ">>,
                   <<" ", "s", "m", "i", "t", "h", " ">> } }

\* texts long enough to fill chunks, made of at most MaxLongPieces pieces: a
\* sentence of 26 words, runs of 40 and of 9 words, a word ending in a comma, a
\* word ending a sentence, a capitalised word
LongPieces ==
    { <<"A", " ">> \o Repeat(<<"a", " ">>, 24) \o <<"c", ".", " ">>,
      Repeat(<<"a", " ">>, 40), Repeat(<<"a", " ">>, 9),
      <<"b", ",", " ">>, <<"c", ".", " ">>, <<"A", " ">> }
LongTexts == { Flatten(a) : a \in SeqsUpTo(LongPieces, MaxLongPieces) }

\* words for the last positions before a hard cut: plain, ending in each of the
\* punctuation marks of the look-back test, in the em-dash U+2014, and in the
\* three characters U+00E2 U+20AC U+201D
BreakWords ==
    { <<"a">>, <<"b", ",">>, <<"d", ";">>, <<"e", ":">>, <<"f", "-">>,
      <<"g", "U+2014">>, <<"h", "U+00E2", "U+20AC", "U+201D">> }

\* one sentence of 76 words: 39 plain words, a word from {plain, comma} as the
\* 40th, any of BreakWords as the 41st, 8 plain words, a word from {plain, comma,
\* em-dash} as the 50th, and 26 more words
BreakTexts ==
    { Repeat(<<"a", " ">>, 39) \o w40 \o <<" ">> \o w41 \o <<" ">>
      \o Repeat(<<"a", " ">>, 8) \o w50 \o <<" ">>
      \o Repeat(<<"a", " ">>, 25) \o <<"c", ".">> :
        w40 \in { <<"a">>, <<"b", ",">> },
        w41 \in BreakWords,
        w50 \in { <<"a">>, <<"b", ",">>, <<"g", "U+2014">> } }

\* what chunkText may be handed as its text
TextInputs ==
    { JSUndefined, JSNull, JSNum(0), JSNum(7), JSArr(<<>>) } \cup
    { JSStr(s) : s \in CharTexts \cup PhraseTexts \cup AbbreviationTexts \cup LongTexts
                       \cup BreakTexts }

\* what chunkText may be handed as its options: omitted, an object without the
\* flag, or the flag set
OptionsInputs ==
    { [type |-> "undefined", has |-> FALSE, structuralChunking |-> FALSE],
      [type |-> "object", has |-> FALSE, structuralChunking |-> FALSE],
      [type |-> "object", has |-> TRUE, structuralChunking |-> TRUE],
      [type |-> "object", has |-> TRUE, structuralChunking |-> FALSE] }

NoResult == [none |-> TRUE]

\* bound of the PDF runs: the number of text items of a file
MaxItems == 3

\* the texts of the items: four words with a trailing space, one word in capitals
\* (two of them side by side match the all-capitals pattern), a numbered title
PdfTexts ==
    { <<"a", " ", "b", " ", "c", " ", "d", " ">>,
      <<"T", "O", " ">>,
      <<"1", " ", "A">> }

\* the heights of the items: with one item of 21 and one of 14 the threshold is
\* 21, and with two items of 14 and one of 7 it is the double just below 14
PdfHeights == {7, 14, 21}

\* the vertical positions: distances of 0, 5, 15 and 20
PdfYs == {0, 5, 20}

\* the pages the items are on
PdfPages == {1, 2}

\* allItems: the text items in extraction order, page after page
PdfItems == [text : PdfTexts, height : PdfHeights, y : PdfYs, pageNum : PdfPages]
PdfInputs ==
    { items \in SeqsUpTo(PdfItems, MaxItems) :
        \A k \in 1..(Len(items) - 1) : items[k].pageNum <= items[k + 1].pageNum }

(***************************************************************************)
(* The calls                                                               *)
(***************************************************************************)
\* the chunker before any call, with the text it is to be called with
ChunkerInit ==
    /\ text \in TextInputs
    /\ options = [type |-> "undefined", has |-> FALSE, structuralChunking |-> FALSE]
    /\ chunks = <<>>
    /\ sentences = <<>>
    /\ stats = NoResult
    /\ statsArg = JSUndefined
    /\ pc = "start"
    /\ pdf = PdfIdle

\* chunkText(text, options)
CallChunkText ==
    /\ pc = "start"
    /\ \E opts \in OptionsInputs :
          /\ options' = opts
          /\ chunks' = chunkText(text, opts)
    /\ pc' = "chunked"
    /\ UNCHANGED <<text, sentences, stats, statsArg, pdf>>
    /\ UNCHANGED storeVars
    /\ UNCHANGED appVars

\* splitIntoSentences(cleanText), as chunkText calls it on a text without headings
CallSplitIntoSentences ==
    /\ pc = "start"
    /\ text.type = "string"
    /\ normalize(text.str) # <<>>
    /\ sentences' = splitIntoSentences(Trim(CollapseWhitespace(normalize(text.str))))
    /\ pc' = "split"
    /\ UNCHANGED <<text, options, chunks, stats, statsArg, pdf>>
    /\ UNCHANGED storeVars
    /\ UNCHANGED appVars

\* getChunkStats(chunks) on the array chunkText returned
CallGetChunkStats ==
    /\ pc = "chunked"
    /\ statsArg' = JSArr(chunks)
    /\ stats' = getChunkStats(JSArr(chunks))
    /\ pc' = "stats"
    /\ UNCHANGED <<text, options, chunks, sentences, pdf>>
    /\ UNCHANGED storeVars
    /\ UNCHANGED appVars

\* getChunkStats() and getChunkStats(null)
CallGetChunkStatsAbsent ==
    /\ pc = "start"
    /\ \E arg \in {JSUndefined, JSNull} :
          /\ statsArg' = arg
          /\ stats' = getChunkStats(arg)
    /\ pc' = "stats"
    /\ UNCHANGED <<text, options, chunks, sentences, pdf>>
    /\ UNCHANGED storeVars
    /\ UNCHANGED appVars

\* extractTextFromPDF begins its second pass over the items of a file
PdfInit ==
    /\ text = JSUndefined
    /\ options = [type |-> "undefined", has |-> FALSE, structuralChunking |-> FALSE]
    /\ chunks = <<>>
    /\ sentences = <<>>
    /\ stats = NoResult
    /\ statsArg = JSUndefined
    /\ pc = "idle"
    /\ pdf \in { pdfStart(items) : items \in PdfInputs }

\* one iteration of the loop over allItems
PdfItem ==
    /\ pdf.pc = "loop"
    /\ pdf.pos < Len(pdf.allItems)
    /\ pdf' = [itemStep(pdf, pdf.allItems[pdf.pos + 1], pdf.allItems) EXCEPT !.pos = @ + 1]
    /\ UNCHANGED <<text, options, chunks, sentences, stats, statsArg, pc>>
    /\ UNCHANGED storeVars
    /\ UNCHANGED appVars

\* after the loop: the remaining line is flushed and the cleaned text returned
PdfReturn ==
    /\ pdf.pc = "loop"
    /\ pdf.pos = Len(pdf.allItems)
    /\ pdf' = [flushLine(pdf, pdf.allItems) EXCEPT
                  !.pc = "done",
                  !.result = cleanPdfText(flushLine(pdf, pdf.allItems).fullText)]
    /\ UNCHANGED <<text, options, chunks, sentences, stats, statsArg, pc>>
    /\ UNCHANGED storeVars
    /\ UNCHANGED appVars

(***************************************************************************)
(* indexedDB.js: the bookmark store                                        *)
(***************************************************************************)
\* bounds of the store's runs
MaxCalls == 4
MaxDocuments == 2
MaxChunkIndex == 1

DocumentIds == 1..MaxDocuments
ChunkIndexes == 0..MaxChunkIndex

\* a freshly opened database: no bookmark, no call made
StoreInit ==
    /\ bookmarks = {}
    /\ calls = <<>>
    /\ nextId = 0

\* getBookmarksByDocument(documentId): the records the documentId index gives
getBookmarksByDocument(documentId) ==
    { b \in bookmarks : b.documentId = documentId }

\* isChunkBookmarked(documentId, chunkIndex), run on one read of the index
isChunkBookmarked(documentId, chunkIndex) ==
    \E b \in getBookmarksByDocument(documentId) : b.chunkIndex = chunkIndex

\* mutant: the find that forgets to compare the chunk index
findExistingAnyChunk(documentId, chunkIndex) == getBookmarksByDocument(documentId)

\* the records bookmarks.find(b => b.chunkIndex === chunkIndex) may return: the
\* first match in the order of the random ids
findExisting(documentId, chunkIndex) ==
    { b \in getBookmarksByDocument(documentId) : b.chunkIndex = chunkIndex }

\* toggleBookmark(documentId, chunkIndex, text) is called; the reader passes the
\* text of chunk chunkIndex of the document, written here as the pair
ToggleStart(documentId, chunkIndex) ==
    /\ Len(calls) < MaxCalls
    /\ calls' = Append(calls, [documentId |-> documentId, chunkIndex |-> chunkIndex,
                               text |-> <<documentId, chunkIndex>>,
                               pc |-> "read", existing |-> 0, added |-> FALSE,
                               mounted |-> reader.view = "reader"])
    /\ UNCHANGED <<bookmarks, nextId>>
    /\ UNCHANGED chunkerVars
    /\ UNCHANGED appVars

\* A write has been made and its completion is still to be delivered to the
\* call that awaits it. The store completes the operations on one object store
\* in their order, so no other operation on the bookmarks store completes
\* before that delivery; clicks, timers and the other stores go on meanwhile.
bookmarksUndelivered == \E k \in 1..Len(calls) : calls[k].pc = "return"

\* await getBookmarksByDocument(documentId), then the find
ToggleRead(k) ==
    /\ calls[k].pc = "read"
    /\ ~bookmarksUndelivered
    /\ LET found == findExisting(calls[k].documentId, calls[k].chunkIndex)
       IN  \/ /\ found = {}
              /\ calls' = [calls EXCEPT ![k].pc = "save"]
           \/ \E b \in found :
                 calls' = [calls EXCEPT ![k].pc = "delete", ![k].existing = b.id]
    /\ UNCHANGED <<bookmarks, nextId>>
    /\ UNCHANGED chunkerVars
    /\ UNCHANGED appVars

\* what handleBookmarkToggle does when toggleBookmark has returned:
\* setIsBookmarked(result.added), on the Reader that made the call if it is
\* still mounted (the field mounted of a call says that a mounted Reader
\* awaits it)
toggleReturned(k, added) ==
    /\ reader' = IF calls[k].mounted THEN [reader EXCEPT !.isBookmarked = added] ELSE reader
    /\ UNCHANGED <<documents, progress, imports, deletions, listed, reloads, saves, opens,
                   lookups>>

\* deleteBookmark(existing.id): db.delete('bookmarks', id) is done
ToggleDelete(k) ==
    /\ calls[k].pc = "delete"
    /\ ~bookmarksUndelivered
    /\ bookmarks' = { b \in bookmarks : b.id # calls[k].existing }
    /\ calls' = [calls EXCEPT ![k].pc = "return"]
    /\ UNCHANGED nextId
    /\ UNCHANGED chunkerVars
    /\ UNCHANGED appVars

\* saveBookmark({ documentId, chunkIndex, text }): db.put('bookmarks', newBookmark)
\* is done
ToggleSave(k) ==
    /\ calls[k].pc = "save"
    /\ ~bookmarksUndelivered
    /\ nextId' = nextId + 1
    /\ bookmarks' = bookmarks \cup
                    { [id |-> nextId + 1, documentId |-> calls[k].documentId,
                       chunkIndex |-> calls[k].chunkIndex, text |-> calls[k].text] }
    /\ calls' = [calls EXCEPT ![k].pc = "return"]
    /\ UNCHANGED chunkerVars
    /\ UNCHANGED appVars

\* the await of the write settles: toggleBookmark returns { added: false } after
\* the delete and { added: true, bookmark } after the put, and
\* handleBookmarkToggle goes on
ToggleReturn(k) ==
    /\ calls[k].pc = "return"
    /\ calls' = [calls EXCEPT ![k].pc = "done", ![k].added = (calls[k].existing = 0),
                              ![k].mounted = FALSE]
    /\ UNCHANGED <<bookmarks, nextId>>
    /\ UNCHANGED chunkerVars
    /\ toggleReturned(k, calls[k].existing = 0)

\* every call made so far has returned
AllReturned == \A k \in 1..Len(calls) : calls[k].pc = "done"

\* the chunker's variables while the store runs
ChunkerIdle ==
    /\ text = JSUndefined
    /\ options = [type |-> "undefined", has |-> FALSE, structuralChunking |-> FALSE]
    /\ chunks = <<>>
    /\ sentences = <<>>
    /\ stats = NoResult
    /\ statsArg = JSUndefined
    /\ pc = "idle"
    /\ pdf = PdfIdle

(***************************************************************************)
(* App.jsx, Home and Reader: the application on top of the store           *)
(***************************************************************************)
\* bounds of the application's runs
MaxImports == 2
MaxDeletions == 1
MaxToggles == 2
MaxInFlight == 2

\* the files the user picks: a name, a size in bytes, whether the browser can
\* read the file, and raw, the text file.text() gives for a text file and the
\* text extractTextFromPDF returns for a PDF
ImportFiles ==
    { \* not a supported extension
      [name |-> <<"a", ".", "e", "x", "e">>, size |-> 10, readable |-> TRUE,
       raw |-> <<"H", "i", ".">>],
      \* one byte over the limit
      [name |-> <<"a", ".", "t", "x", "t">>, size |-> maxSize + 1, readable |-> TRUE,
       raw |-> <<"H", "i", ".">>],
      \* at the limit, and file.text() rejects
      [name |-> <<"a", ".", "t", "x", "t">>, size |-> maxSize, readable |-> FALSE,
       raw |-> <<>>],
      \* only whitespace
      [name |-> <<"a", ".", "t", "x", "t">>, size |-> 10, readable |-> TRUE,
       raw |-> <<" ", "\r", "\n", "\t">>],
      \* a heading and nothing under it
      [name |-> <<"a", ".", "m", "d">>, size |-> 10, readable |-> TRUE,
       raw |-> <<"#", " ", "T">>],
      \* a byte order mark, a heading and one sentence
      [name |-> <<"a", ".", "m", "d">>, size |-> 10, readable |-> TRUE,
       raw |-> <<"U+FEFF", "#", " ", "I", "\n", "H", "i", ".">>],
      \* two sections
      [name |-> <<"a", ".", "m", "d">>, size |-> maxSize, readable |-> TRUE,
       raw |-> <<"G", "o", ".", "\r", "\n", "#", " ", "T", "\r", "\n", "N", "o", ".">>],
      \* a PDF whose extraction returns one sentence
      [name |-> <<"b", ".", "P", "D", "F">>, size |-> 10, readable |-> TRUE,
       raw |-> <<"H", "i", ".">>],
      \* a PDF whose extraction throws
      [name |-> <<"b", ".", "p", "d", "f">>, size |-> 10, readable |-> FALSE,
       raw |-> <<>>] }

\* what App shows on the list of documents
atHome ==
    [view |-> "home", document |-> NoResult, currentIndex |-> 0,
     isBookmarked |-> FALSE, isAnimating |-> FALSE, showSettings |-> FALSE,
     panelMarks |-> {}]

\* the application when it has mounted on an empty database: App's mount
\* effect has called loadDocuments
AppInit ==
    /\ documents = {}
    /\ progress = {}
    /\ imports = <<>>
    /\ deletions = <<>>
    /\ listed = {}
    /\ reloads = 1
    /\ reader = atHome
    /\ saves = <<>>
    /\ opens = <<>>
    /\ lookups = <<>>

\* the asynchronous calls of the application that have not settled
inFlight ==
    Cardinality({ k \in 1..Len(imports) : imports[k].pc # "done" })
    + Cardinality({ k \in 1..Len(deletions) : deletions[k].pc # "done" })
    + Cardinality({ k \in 1..Len(calls) : calls[k].pc # "done" })
    + Len(saves) + reloads + Len(opens) + Len(lookups)

\* showToast(message, 'error')
errorToast(message) ==
    [type |-> "error", message |-> message, name |-> <<>>, pages |-> 0]

\* showToast(`Added "${file.name}" (${stats.totalChunks} pages)`)
addedToast(name, pages) ==
    [type |-> "success", message |-> "Added", name |-> name, pages |-> pages]

\* what the awaited extraction returns for a readable file: extractTextFromFile
\* cleans the text of the file, extractTextFromPDF returns its text
extractedText(file) ==
    IF validateFile(file).type = "pdf" THEN file.raw ELSE cleanText(file.raw)

\* chunkText(text), called without options
importChunks(extracted) ==
    chunkText(JSStr(extracted),
              [type |-> "undefined", has |-> FALSE, structuralChunking |-> FALSE])

\* mutant: the import that does not check the number of chunks
checkedOutcomeNoChunkCheck(extracted, made) ==
    IF extracted = <<>> \/ Trim(extracted) = <<>>
    THEN [error |-> "Could not extract any text from the file",
          text |-> extracted, chunks |-> <<>>]
    ELSE [error |-> "", text |-> extracted, chunks |-> made]

\* the checks of handleFileSelect on the text extracted and the chunks made of
\* it: the message of the error thrown, "" when none is
checkedOutcome(extracted, made) ==
    IF extracted = <<>> \/ Trim(extracted) = <<>>
    THEN [error |-> "Could not extract any text from the file",
          text |-> extracted, chunks |-> <<>>]
    ELSE IF Len(made) = 0
    THEN [error |-> "Could not create any readable chunks from the file",
          text |-> extracted, chunks |-> made]
    ELSE [error |-> "", text |-> extracted, chunks |-> made]

\* const chunks = chunkText(text), reached when the text is not blank
chunkedOutcome(extracted) == checkedOutcome(extracted, importChunks(extracted))

\* the try block of handleFileSelect up to the call of saveDocument: the
\* message of the error it throws ("" when it throws none), the text
\* extracted and the chunks made of it; the message of an extraction that
\* fails goes on with ": " and the message of the error caught
importOutcome(file) ==
    IF ~file.readable
    THEN [error |-> IF validateFile(file).type = "pdf"
                    THEN "Failed to extract text from PDF"
                    ELSE "Failed to read text file",
          text |-> <<>>, chunks |-> <<>>]
    ELSE chunkedOutcome(extractedText(file))

\* handleFileSelect(files) up to its first await: files[0] is validated; an
\* invalid file is reported and the call returns
ImportStart(file) ==
    /\ reader.view = "home"
    /\ Len(imports) < MaxImports
    /\ inFlight < MaxInFlight
    /\ LET validation == validateFile(file)
           call == [file |-> file, pc |-> "extract", text |-> <<>>, chunks |-> <<>>,
                    shown |-> <<>>, saved |-> FALSE, id |-> 0]
       IN  imports' = Append(imports,
                IF ~validation.valid
                THEN [call EXCEPT !.pc = "done",
                                  !.shown = <<errorToast(validation.error)>>]
                ELSE call)
    /\ UNCHANGED <<documents, progress, deletions, listed, reloads, reader, saves, opens, lookups>>
    /\ UNCHANGED chunkerVars
    /\ UNCHANGED storeVars

\* the catch block shows the message of an error thrown; without an error
\* the call goes on to saveDocument
importSettled(call, outcome) ==
    IF outcome.error # ""
    THEN [call EXCEPT !.pc = "done", !.shown = Append(@, errorToast(outcome.error))]
    ELSE [call EXCEPT !.pc = "save", !.text = outcome.text, !.chunks = outcome.chunks]

\* the extraction settles and the rest of the try block runs up to the call of
\* saveDocument
ImportExtract(k) ==
    /\ imports[k].pc = "extract"
    /\ imports' = [imports EXCEPT ![k] = importSettled(@, importOutcome(imports[k].file))]
    /\ UNCHANGED <<documents, progress, deletions, listed, reloads, reader, saves, opens, lookups>>
    /\ UNCHANGED chunkerVars
    /\ UNCHANGED storeVars

\* mutant: every document saved under the same id
saveDocumentIdFixed(doc) == 1

\* const id = doc.id || crypto.randomUUID()
saveDocumentId(doc) == IF Falsy(doc.id) THEN nextId + 1 ELSE doc.id.num

\* the record saveDocument(doc) puts
saveDocumentRecord(doc) ==
    [id |-> saveDocumentId(doc), name |-> doc.name, content |-> doc.content,
     chunks |-> doc.chunks, totalChunks |-> Len(doc.chunks)]

\* db.put(store, record) on a store keyed by id
putById(store, record) == { r \in store : r.id # record.id } \cup {record}

\* a write to the documents store, or to the progress store, whose completion
\* is still to be delivered to the call that awaits it
documentsUndelivered == \E k \in 1..Len(imports) : imports[k].pc = "added"
progressUndelivered == \E k \in 1..Len(deletions) : deletions[k].pc = "finish"

\* saveDocument({ name, content, chunks }): db.put('documents', document) is done
ImportSave(k) ==
    /\ imports[k].pc = "save"
    /\ ~documentsUndelivered
    /\ LET doc == [id |-> JSUndefined, name |-> imports[k].file.name,
                   content |-> imports[k].text, chunks |-> imports[k].chunks]
           record == saveDocumentRecord(doc)
       IN  /\ documents' = putById(documents, record)
           /\ imports' = [imports EXCEPT
                             ![k].pc = "added", ![k].saved = TRUE, ![k].id = record.id]
    /\ nextId' = nextId + 1
    /\ UNCHANGED <<progress, deletions, listed, reloads, reader, saves, opens, lookups>>
    /\ UNCHANGED <<bookmarks, calls>>
    /\ UNCHANGED chunkerVars

\* the await of saveDocument settles: the success message is shown and
\* onDocumentAdded calls loadDocuments
ImportAdded(k) ==
    /\ imports[k].pc = "added"
    /\ LET pages == getChunkStats(JSArr(imports[k].chunks)).totalChunks
       IN  imports' = [imports EXCEPT
                          ![k].pc = "done",
                          ![k].shown = Append(@, addedToast(imports[k].file.name, pages))]
    /\ reloads' = reloads + 1
    /\ UNCHANGED <<documents, progress, deletions, listed, reader, saves, opens, lookups>>
    /\ UNCHANGED chunkerVars
    /\ UNCHANGED storeVars

\* getAllDocuments returns new objects at every call, and React compares the
\* document Reader is given by identity. An object of the list is the record
\* with the load that made it, the loads numbered by the least number that no
\* object still held (by Reader or by a pending handleDocumentSelect) carries.
loadedAs(docs, load) ==
    { [f \in DOMAIN d \cup {"load"} |-> IF f = "load" THEN load ELSE d[f]] : d \in docs }
\* the load of a new list: the least one that no object still held carries
freshLoad ==
    LET loadsHeld ==
            { opens[i].load : i \in 1..Len(opens) }
            \cup (IF reader.view = "reader" THEN {reader.document.load} ELSE {})
    IN  CHOOSE load \in 0..(Len(opens) + 1) :
            load \notin loadsHeld /\ \A less \in 0..(load - 1) : less \in loadsHeld

\* loadDocuments: getAllDocuments settles and setDocuments takes the list
LoadDocuments ==
    /\ reloads > 0
    /\ ~documentsUndelivered
    /\ listed' = loadedAs(documents, freshLoad)
    /\ reloads' = reloads - 1
    /\ UNCHANGED <<documents, progress, imports, deletions, reader, saves, opens, lookups>>
    /\ UNCHANGED chunkerVars
    /\ UNCHANGED storeVars

\* handleDelete(e, docId), confirmed, up to its first await: deleteDocument(docId)
\* is called and opens the database
DeleteStart(doc) ==
    /\ reader.view = "home"
    /\ doc \in listed
    /\ Len(deletions) < MaxDeletions
    /\ inFlight < MaxInFlight
    /\ deletions' = Append(deletions, [id |-> doc.id, pc |-> "start", found |-> {}])
    /\ UNCHANGED <<documents, progress, imports, listed, reloads, reader, saves, opens,
                   lookups>>
    /\ UNCHANGED chunkerVars
    /\ UNCHANGED storeVars

\* await db.delete('documents', id); getBookmarksByDocument(id) is called
DeleteDocument(k) ==
    /\ deletions[k].pc = "start"
    /\ ~documentsUndelivered
    /\ documents' = { d \in documents : d.id # deletions[k].id }
    /\ deletions' = [deletions EXCEPT ![k].pc = "read"]
    /\ UNCHANGED <<progress, imports, listed, reloads, reader, saves, opens, lookups>>
    /\ UNCHANGED chunkerVars
    /\ UNCHANGED storeVars

\* const bookmarks = await getBookmarksByDocument(id)
DeleteRead(k) ==
    /\ deletions[k].pc = "read"
    /\ ~bookmarksUndelivered
    /\ deletions' = [deletions EXCEPT ![k].pc = "loop",
                                      ![k].found = getBookmarksByDocument(deletions[k].id)]
    /\ UNCHANGED <<documents, progress, imports, listed, reloads, reader, saves, opens, lookups>>
    /\ UNCHANGED chunkerVars
    /\ UNCHANGED storeVars

\* await db.delete('bookmarks', bookmark.id), for one bookmark of the list read
DeleteBookmark(k) ==
    /\ deletions[k].pc = "loop"
    /\ ~bookmarksUndelivered
    /\ \E b \in deletions[k].found :
          /\ bookmarks' = { r \in bookmarks : r.id # b.id }
          /\ deletions' = [deletions EXCEPT ![k].found = @ \ {b}]
    /\ UNCHANGED <<calls, nextId>>
    /\ UNCHANGED <<documents, progress, imports, listed, reloads, reader, saves, opens, lookups>>
    /\ UNCHANGED chunkerVars

\* db.delete('progress', id) is done
DeleteProgress(k) ==
    /\ deletions[k].pc = "loop"
    /\ deletions[k].found = {}
    /\ ~progressUndelivered
    /\ progress' = { p \in progress : p.documentId # deletions[k].id }
    /\ deletions' = [deletions EXCEPT ![k].pc = "finish"]
    /\ UNCHANGED <<documents, imports, listed, reloads, reader, saves, opens, lookups>>
    /\ UNCHANGED chunkerVars
    /\ UNCHANGED storeVars

\* the await of deleteDocument settles: handleDelete shows 'Document deleted' and
\* onDocumentDeleted calls loadDocuments
DeleteDone(k) ==
    /\ deletions[k].pc = "finish"
    /\ deletions' = [deletions EXCEPT ![k].pc = "done"]
    /\ reloads' = reloads + 1
    /\ UNCHANGED <<documents, progress, imports, listed, reader, saves, opens, lookups>>
    /\ UNCHANGED chunkerVars
    /\ UNCHANGED storeVars

\* handleDocumentSelect(doc) up to its await: getProgress(doc.id) is called
OpenStart(doc) ==
    /\ reader.view = "home"
    /\ doc \in listed
    /\ inFlight < MaxInFlight
    /\ opens' = Append(opens, doc)
    /\ UNCHANGED <<documents, progress, imports, deletions, listed, reloads, reader, saves,
                   lookups>>
    /\ UNCHANGED chunkerVars
    /\ UNCHANGED storeVars

\* the start index handleDocumentSelect sets: the saved index if it is past the
\* first chunk and the user confirms, 0 otherwise
startIndexOf(doc, resume) ==
    LET saved == { p \in progress : p.documentId = doc.id }
    IN  IF resume /\ \E p \in saved : p.currentIndex > 0
        THEN (CHOOSE p \in saved : TRUE).currentIndex
        ELSE 0

\* the effects that run after a render of Reader: those of SettingsPanel, the
\* child, first (a panel that has just opened, or whose documentId is another
\* one, loads the bookmarks), then those of Reader when document or
\* currentIndex has changed: isChunkBookmarked and saveProgress are called
readerEffects(was, now) ==
    /\ saves' = IF now.document = was.document /\ now.currentIndex = was.currentIndex
                THEN saves
                ELSE Append(saves, [documentId |-> now.document.id,
                                    currentIndex |-> now.currentIndex])
    /\ lookups' =
          SelectSeq(lookups, LAMBDA l : now.showSettings \/ l.kind # "panel")
          \o (IF now.showSettings /\ (~was.showSettings \/ now.document.id # was.document.id)
              THEN <<[kind |-> "panel", documentId |-> now.document.id, chunkIndex |-> 0]>>
              ELSE <<>>)
          \o (IF now.document = was.document /\ now.currentIndex = was.currentIndex
              THEN <<>>
              ELSE <<[kind |-> "check", documentId |-> now.document.id,
                      chunkIndex |-> now.currentIndex]>>)

\* the rest of handleDocumentSelect, once getProgress has settled: the document
\* and the start index are set and the view is the reader.  A Reader that is
\* mounted already (an earlier call has set the view) keeps its state and only
\* takes the new document
OpenResolve(resume) ==
    /\ opens # <<>>
    /\ ~progressUndelivered
    /\ opens' = Tail(opens)
    /\ reader' = IF reader.view = "home"
                 THEN [atHome EXCEPT !.view = "reader",
                                     !.document = Head(opens),
                                     !.currentIndex = startIndexOf(Head(opens), resume)]
                 ELSE [reader EXCEPT !.document = Head(opens)]
    /\ readerEffects(reader, reader')
    /\ UNCHANGED <<documents, progress, imports, deletions, listed, reloads>>
    /\ UNCHANGED chunkerVars
    /\ UNCHANGED storeVars

\* goToNext: one chunk forward unless on the last or within 300 ms of the
\* last move
GoToNext ==
    /\ reader.view = "reader"
    /\ reader.currentIndex < Len(reader.document.chunks) - 1
    /\ ~reader.isAnimating
    /\ inFlight < MaxInFlight
    /\ reader' = [reader EXCEPT !.currentIndex = @ + 1, !.isAnimating = TRUE]
    /\ readerEffects(reader, reader')
    /\ UNCHANGED <<documents, progress, imports, deletions, listed, reloads, opens>>
    /\ UNCHANGED chunkerVars
    /\ UNCHANGED storeVars

\* goToPrev: one chunk back unless on the first or within 300 ms of the last
\* move
GoToPrev ==
    /\ reader.view = "reader"
    /\ reader.currentIndex > 0
    /\ ~reader.isAnimating
    /\ inFlight < MaxInFlight
    /\ reader' = [reader EXCEPT !.currentIndex = @ - 1, !.isAnimating = TRUE]
    /\ readerEffects(reader, reader')
    /\ UNCHANGED <<documents, progress, imports, deletions, listed, reloads, opens>>
    /\ UNCHANGED chunkerVars
    /\ UNCHANGED storeVars

\* setTimeout(() => setIsAnimating(false), 300) fires
AnimationEnd ==
    /\ reader.view = "reader"
    /\ reader.isAnimating
    /\ reader' = [reader EXCEPT !.isAnimating = FALSE]
    /\ UNCHANGED <<documents, progress, imports, deletions, listed, reloads, saves, opens,
                   lookups>>
    /\ UNCHANGED chunkerVars
    /\ UNCHANGED storeVars

\* setShowSettings(true): SettingsPanel mounts with an empty list and loads the
\* bookmarks of the document
OpenSettings ==
    /\ reader.view = "reader"
    /\ ~reader.showSettings
    /\ inFlight < MaxInFlight
    /\ reader' = [reader EXCEPT !.showSettings = TRUE]
    /\ readerEffects(reader, reader')
    /\ UNCHANGED <<documents, progress, imports, deletions, listed, reloads, opens>>
    /\ UNCHANGED chunkerVars
    /\ UNCHANGED storeVars

\* onGoToBookmark(bookmark.chunkIndex) for a bookmark of the panel's list:
\* setCurrentIndex(index) and the panel closes
GoToBookmark(index) ==
    /\ reader.view = "reader"
    /\ reader.showSettings
    /\ index \in reader.panelMarks
    /\ inFlight < MaxInFlight
    /\ reader' = [reader EXCEPT !.currentIndex = index,
                                !.showSettings = FALSE,
                                !.panelMarks = {}]
    /\ readerEffects(reader, reader')
    /\ UNCHANGED <<documents, progress, imports, deletions, listed, reloads, opens>>
    /\ UNCHANGED chunkerVars
    /\ UNCHANGED storeVars

\* onClose: the panel closes
CloseSettings ==
    /\ reader.view = "reader"
    /\ reader.showSettings
    /\ reader' = [reader EXCEPT !.showSettings = FALSE, !.panelMarks = {}]
    /\ readerEffects(reader, reader')
    /\ UNCHANGED <<documents, progress, imports, deletions, listed, reloads, opens>>
    /\ UNCHANGED chunkerVars
    /\ UNCHANGED storeVars

\* the oldest read of the bookmarks index settles: isChunkBookmarked gives
\* setIsBookmarked its answer, getBookmarksByDocument gives the panel its list
LookupResolve ==
    /\ lookups # <<>>
    /\ ~bookmarksUndelivered
    /\ lookups' = Tail(lookups)
    /\ reader' =
          IF Head(lookups).kind = "check"
          THEN [reader EXCEPT !.isBookmarked =
                   isChunkBookmarked(Head(lookups).documentId, Head(lookups).chunkIndex)]
          ELSE [reader EXCEPT !.panelMarks =
                   { b.chunkIndex : b \in getBookmarksByDocument(Head(lookups).documentId) }]
    /\ UNCHANGED <<documents, progress, imports, deletions, listed, reloads, saves, opens>>
    /\ UNCHANGED chunkerVars
    /\ UNCHANGED storeVars

\* saveProgress(documentId, currentIndex) puts its record, keyed by documentId
SaveProgress ==
    /\ saves # <<>>
    /\ ~progressUndelivered
    /\ progress' = { p \in progress : p.documentId # Head(saves).documentId }
                   \cup {Head(saves)}
    /\ saves' = Tail(saves)
    /\ UNCHANGED <<documents, imports, deletions, listed, reloads, reader, opens, lookups>>
    /\ UNCHANGED chunkerVars
    /\ UNCHANGED storeVars

\* handleBookmarkToggle: toggleBookmark on the chunk the reader shows
ReaderToggle ==
    /\ reader.view = "reader"
    /\ Len(calls) < MaxToggles
    /\ inFlight < MaxInFlight
    /\ ToggleStart(reader.document.id, reader.currentIndex)

\* handleBackToHome: back to the list, which is loaded again; Reader unmounts,
\* so what its pending calls set later is set on no component
BackToHome ==
    /\ reader.view = "reader"
    /\ inFlight < MaxInFlight
    /\ reader' = atHome
    /\ reloads' = reloads + 1
    /\ lookups' = <<>>
    /\ calls' = [k \in 1..Len(calls) |-> [calls[k] EXCEPT !.mounted = FALSE]]
    /\ UNCHANGED <<documents, progress, imports, deletions, listed, saves, opens>>
    /\ UNCHANGED <<bookmarks, nextId>>
    /\ UNCHANGED chunkerVars

(***************************************************************************)
(* Specifications                                                          *)
(***************************************************************************)
\* the chunker's functions called on every input of the families above
Init == ChunkerInit /\ StoreInit /\ AppInit

Next ==
    \/ CallChunkText
    \/ CallSplitIntoSentences
    \/ CallGetChunkStats
    \/ CallGetChunkStatsAbsent

Spec == Init /\ [][Next]_vars

\* toggleBookmark called again and again, each call after the one before returned
InitSequential == ChunkerIdle /\ StoreInit /\ AppInit

NextSequential ==
    \/ \E d \in DocumentIds, c \in ChunkIndexes : AllReturned /\ ToggleStart(d, c)
    \/ \E k \in 1..Len(calls) : ToggleRead(k)
    \/ \E k \in 1..Len(calls) : ToggleDelete(k)
    \/ \E k \in 1..Len(calls) : ToggleSave(k)
    \/ \E k \in 1..Len(calls) : ToggleReturn(k)

SpecSequential == InitSequential /\ [][NextSequential]_vars

\* toggleBookmark called at any moment: a call may begin while others have not
\* returned
NextConcurrent ==
    \/ \E d \in DocumentIds, c \in ChunkIndexes : ToggleStart(d, c)
    \/ \E k \in 1..Len(calls) : ToggleRead(k)
    \/ \E k \in 1..Len(calls) : ToggleDelete(k)
    \/ \E k \in 1..Len(calls) : ToggleSave(k)
    \/ \E k \in 1..Len(calls) : ToggleReturn(k)

SpecConcurrent == InitSequential /\ [][NextConcurrent]_vars

\* the library used by one user: imports, deletions, a document opened on its
\* first chunk or where it was left, bookmarked there and closed, every
\* asynchronous call settling at any later moment (the gestures made inside
\* the Reader are in NextReader)
NextApp ==
    \/ \E file \in ImportFiles : ImportStart(file)
    \/ \E k \in 1..Len(imports) : ImportExtract(k)
    \/ \E k \in 1..Len(imports) : ImportSave(k)
    \/ \E k \in 1..Len(imports) : ImportAdded(k)
    \/ LoadDocuments
    \/ \E doc \in listed : DeleteStart(doc)
    \/ \E k \in 1..Len(deletions) : DeleteDocument(k)
    \/ \E k \in 1..Len(deletions) : DeleteRead(k)
    \/ \E k \in 1..Len(deletions) : DeleteBookmark(k)
    \/ \E k \in 1..Len(deletions) : DeleteProgress(k)
    \/ \E k \in 1..Len(deletions) : DeleteDone(k)
    \/ \E doc \in listed : OpenStart(doc)
    \/ \E resume \in BOOLEAN : OpenResolve(resume)
    \/ LookupResolve
    \/ SaveProgress
    \/ ReaderToggle
    \/ \E k \in 1..Len(calls) : ToggleRead(k)
    \/ \E k \in 1..Len(calls) : ToggleDelete(k)
    \/ \E k \in 1..Len(calls) : ToggleSave(k)
    \/ \E k \in 1..Len(calls) : ToggleReturn(k)
    \/ BackToHome

SpecApp == InitSequential /\ [][NextApp]_vars

\* the file of two sections and the PDF file of one sentence
twoChunkFile == CHOOSE file \in ImportFiles : file.readable /\ file.size = maxSize
oneChunkFile == CHOOSE file \in ImportFiles : file.readable /\ getFileType(file.name) = "pdf"

\* the record of the documents store and the record of the call after
\* handleFileSelect has imported a file under the id given
storedAs(id, name, outcome) ==
    [id |-> id, name |-> name, content |-> outcome.text, chunks |-> outcome.chunks,
     totalChunks |-> Len(outcome.chunks)]
importedAs(id, file, outcome) ==
    [file |-> file, pc |-> "done", text |-> outcome.text, chunks |-> outcome.chunks,
     shown |-> <<addedToast(file.name, Len(outcome.chunks))>>, saved |-> TRUE, id |-> id]

\* the documents store and the calls of handleFileSelect after the two files
\* were imported, the first as document 1 and the second as document 2
readerStart(outcomes) ==
    [documents |-> { storedAs(1, twoChunkFile.name, outcomes[twoChunkFile]),
                     storedAs(2, oneChunkFile.name, outcomes[oneChunkFile]) },
     imports |-> << importedAs(1, twoChunkFile, outcomes[twoChunkFile]),
                    importedAs(2, oneChunkFile, outcomes[oneChunkFile]) >>]

\* the application after the two files were imported and the list was loaded
InitReader ==
    /\ ChunkerIdle
    /\ bookmarks = {}
    /\ calls = <<>>
    /\ nextId = 2
    /\ \E start \in { readerStart([file \in {twoChunkFile, oneChunkFile} |-> importOutcome(file)]) } :
          /\ documents = start.documents
          /\ listed = loadedAs(start.documents, 0)
          /\ imports = start.imports
    /\ progress = {}
    /\ deletions = <<>>
    /\ reloads = 0
    /\ reader = atHome
    /\ saves = <<>>
    /\ opens = <<>>
    /\ lookups = <<>>

\* the two documents read, bookmarked and deleted, every asynchronous call
\* settling at any later moment
NextReader ==
    \/ LoadDocuments
    \/ \E doc \in listed : DeleteStart(doc)
    \/ \E k \in 1..Len(deletions) : DeleteDocument(k)
    \/ \E k \in 1..Len(deletions) : DeleteRead(k)
    \/ \E k \in 1..Len(deletions) : DeleteBookmark(k)
    \/ \E k \in 1..Len(deletions) : DeleteProgress(k)
    \/ \E k \in 1..Len(deletions) : DeleteDone(k)
    \/ \E doc \in listed : OpenStart(doc)
    \/ \E resume \in BOOLEAN : OpenResolve(resume)
    \/ GoToNext
    \/ GoToPrev
    \/ AnimationEnd
    \/ OpenSettings
    \/ \E index \in ChunkIndexes : GoToBookmark(index)
    \/ CloseSettings
    \/ LookupResolve
    \/ SaveProgress
    \/ ReaderToggle
    \/ \E k \in 1..Len(calls) : ToggleRead(k)
    \/ \E k \in 1..Len(calls) : ToggleDelete(k)
    \/ \E k \in 1..Len(calls) : ToggleSave(k)
    \/ \E k \in 1..Len(calls) : ToggleReturn(k)
    \/ BackToHome

SpecReader == InitReader /\ [][NextReader]_vars

\* extractTextFromPDF on the items of one file, one loop iteration at a time
InitPdf == PdfInit /\ StoreInit /\ AppInit

NextPdf ==
    \/ PdfItem
    \/ PdfReturn

SpecPdf == InitPdf /\ [][NextPdf]_vars

(***************************************************************************)
(* What the claims are stated with                                         *)
(***************************************************************************)
\* the non-empty tokens of s between whitespace runs
wordsOf(s) == SelectSeq(SplitWhitespace(s), LAMBDA word : Len(word) > 0)

\* the input with every whitespace run collapsed to one space, and trimmed
collapsedInput == Trim(CollapseWhitespace(text.str))

\* the normalized input has a line that is a heading line
hasHeadingLine(n) ==
    \E i \in 1..Len(Split(n, "\n")) : isHeaderLine(Split(n, "\n")[i])

\* chunkText was called on a string and has returned
chunkedText == pc = "chunked" /\ text.type = "string"

\* the texts of the chunks returned
chunkTexts == [k \in 1..Len(chunks) |-> chunks[k].text]

RECURSIVE sectionSentences(_, _)
sectionSentences(sections, i) ==
    IF i > Len(sections) THEN <<>>
    ELSE splitIntoSentences(Trim(CollapseWhitespace(sections[i].content)))
         \o sectionSentences(sections, i + 1)

\* every sentence the sentence splitter produced during the call, in order
callSentences ==
    LET n == normalize(text.str)
    IN  IF n = <<>> THEN <<>>
        ELSE IF structuralChunking(options) /\ hasHeaders(n)
             THEN sectionSentences(sectionsOf(n), 1)
             ELSE splitIntoSentences(Trim(CollapseWhitespace(n)))

RECURSIVE runningTotals(_, _, _)
\* the running totals of a sequence of numbers
runningTotals(a, i, acc) ==
    IF i > Len(a) THEN <<>>
    ELSE <<acc + a[i]>> \o runningTotals(a, i + 1, acc + a[i])

\* C1: every chunk chunkText returns has at most MAX_WORDS words, the pieces of a
\* hard-split sentence included
C1_ChunkWordLimit ==
    pc = "chunked" => \A k \in 1..Len(chunks) : Len(wordsOf(chunks[k].text)) <= MAX_WORDS

\* a sentence of more than MAX_WORDS words was hard-split and one piece is full
C1_Witness ==
    /\ chunkedText
    /\ \E j \in 1..Len(callSentences) : Len(wordsOf(callSentences[j])) > MAX_WORDS
    /\ \E k \in 1..Len(chunks) : Len(wordsOf(chunks[k].text)) = MAX_WORDS

\* C2: when the normalized input has no heading line, the chunk texts joined with
\* single spaces are the input with its whitespace runs collapsed, trimmed
C2_ContentPreserved ==
    (chunkedText /\ ~hasHeadingLine(normalize(text.str)))
        => Join(chunkTexts, <<" ">>) = collapsedInput

\* several chunks came out of a text whose whitespace had to be collapsed
C2_Witness ==
    /\ chunkedText
    /\ ~hasHeadingLine(normalize(text.str))
    /\ Len(chunks) >= 3
    /\ text.str # collapsedInput

\* C3: no chunk boundary falls inside a sentence of at most MAX_WORDS words
C3_SentencesKeptWhole ==
    chunkedText =>
        LET produced == callSentences
            sentenceWords == [j \in 1..Len(produced) |-> Len(wordsOf(produced[j]))]
            sentenceEnds == runningTotals(sentenceWords, 1, 0)
            chunkEnds == runningTotals([k \in 1..Len(chunks) |->
                                           Len(wordsOf(chunks[k].text))], 1, 0)
        IN  \A j \in 1..Len(sentenceWords) :
                sentenceWords[j] <= MAX_WORDS =>
                    \A k \in 1..Len(chunks) :
                        ~(/\ sentenceEnds[j] - sentenceWords[j] < chunkEnds[k]
                          /\ chunkEnds[k] < sentenceEnds[j])

\* sentences that all fit were packed into more than one chunk
C3_Witness ==
    /\ chunkedText
    /\ Len(chunks) >= 2
    /\ Len(callSentences) > Len(chunks)
    /\ \A j \in 1..Len(callSentences) : Len(wordsOf(callSentences[j])) <= MAX_WORDS

\* C4: every chunk has a non-empty text with at least one word
C4_NoEmptyChunk ==
    pc = "chunked" =>
        \A k \in 1..Len(chunks) :
            chunks[k].text # <<>> /\ Len(wordsOf(chunks[k].text)) >= 1

\* the text ends in a hard-split sentence, so that nothing is pending at the end
C4_Witness ==
    /\ chunkedText
    /\ callSentences # <<>>
    /\ Len(wordsOf(callSentences[Len(callSentences)])) > MAX_WORDS
    /\ Len(chunks) >= 2

\* C5: chunkText returns the empty array for an absent, non-string, empty or
\* whitespace-only text
C5_LenientInput ==
    (/\ pc = "chunked"
     /\ \/ text.type # "string"
        \/ \A i \in 1..Len(text.str) : text.str[i] \in WhiteSpace)
        => chunks = <<>>

\* chunkText was called on a whitespace-only string
C5_Witness ==
    /\ chunkedText
    /\ Len(text.str) >= 2
    /\ \A i \in 1..Len(text.str) : text.str[i] \in WhiteSpace
    /\ chunks = <<>>

\* the text of a heading line without its markers, trimmed
headingOf(line) == Trim(SubSeq(line, hashRun(line, 1) + 1, Len(line)))

RECURSIVE taggedSource(_, _, _)
\* the words of the non-heading lines, each with the nearest heading before it
taggedSource(lines, i, heading) ==
    IF i > Len(lines) THEN <<>>
    ELSE IF isHeaderLine(lines[i])
         THEN taggedSource(lines, i + 1, JSStr(headingOf(lines[i])))
         ELSE LET w == wordsOf(lines[i])
              IN  [x \in 1..Len(w) |-> [word |-> w[x], context |-> heading]]
                  \o taggedSource(lines, i + 1, heading)

RECURSIVE taggedChunks(_)
\* the words of the chunks, each with its chunk's context
taggedChunks(i) ==
    IF i > Len(chunks) THEN <<>>
    ELSE LET w == wordsOf(chunks[i].text)
         IN  [x \in 1..Len(w) |-> [word |-> w[x], context |-> chunks[i].context]]
             \o taggedChunks(i + 1)

IntroExample ==
    <<"#", " ", "I", "n", "t", "r", "o", "\n",
      "H", "e", "l", "l", "o", " ", "w", "o", "r", "l", "d", ".", " ",
      "T", "h", "i", "s", " ", "i", "s", " ", "a", " ", "t", "e", "s", "t", ".">>

\* C6: with structural chunking on a text with heading lines, every word sits in a
\* chunk whose context is the nearest heading before it (null before the first
\* heading), and "# Intro\nHello world. This is a test." gives the one chunk
C6_ContextIsNearestHeading ==
    (/\ chunkedText
     /\ structuralChunking(options)
     /\ hasHeadingLine(normalize(text.str)))
        => /\ taggedChunks(1) = taggedSource(Split(normalize(text.str), "\n"), 1, JSNull)
           /\ text.str = IntroExample =>
                 chunks = <<[text |-> SubSeq(IntroExample, 9, Len(IntroExample)),
                             context |-> JSStr(<<"I", "n", "t", "r", "o">>)]>>

\* a chunk from before the first heading, then a chunk under a heading whose line
\* ends in whitespace
C6_Witness ==
    /\ chunkedText
    /\ structuralChunking(options)
    /\ Len(chunks) >= 2
    /\ chunks[1].context = JSNull
    /\ chunks[2].context = JSStr(<<"T", "w", "o">>)

DrSmithExample ==
    <<"D", "r", ".", " ", "S", "m", "i", "t", "h", " ",
      "a", "r", "r", "i", "v", "e", "d", ".", " ", "H", "e", " ", "l", "e", "f", "t", ".">>

\* the last word of a sentence
lastWord(sentence) == Split(sentence, " ")[Len(Split(sentence, " "))]

\* C7: no sentence boundary follows a recognized abbreviation, and
\* "Dr. Smith arrived. He left." splits into "Dr. Smith arrived." and "He left."
C7_AbbreviationNoBoundary ==
    pc = "split" =>
        /\ \A j \in 1..(Len(sentences) - 1) : lastWord(sentences[j]) \notin Abbreviations
        /\ collapsedInput = DrSmithExample =>
              sentences = <<SubSeq(DrSmithExample, 1, 18), SubSeq(DrSmithExample, 20, 27)>>

\* the splitter ran on a text where an abbreviation precedes a capitalised word
\* and a later word ends a sentence
C7_Witness ==
    /\ pc = "split"
    /\ Len(sentences) >= 2
    /\ \E i \in 1..(Len(Split(collapsedInput, " ")) - 1) :
          /\ Split(collapsedInput, " ")[i] \in Abbreviations
          /\ Split(collapsedInput, " ")[i + 1][1] \in UpperCase

\* C8: getChunkStats of the empty array, of null or of nothing reports 0 chunks
\* and 0 for the mean, the minimum and the maximum
C8_EmptyStats ==
    (/\ pc = "stats"
     /\ \/ statsArg.type \in {"undefined", "null"}
        \/ statsArg.items = <<>>)
        => /\ stats.totalChunks = 0
           /\ stats.avgWords = 0
           /\ stats.minWords = 0
           /\ stats.maxWords = 0

\* getChunkStats ran on the empty array chunkText returned
C8_Witness ==
    /\ pc = "stats"
    /\ statsArg = JSArr(<<>>)
    /\ stats.totalChunks = 0

\* the calls made for one pair, in the order they began
callsFor(d, c) ==
    SelectSeq(calls, LAMBDA call : call.documentId = d /\ call.chunkIndex = c)

\* the bookmarks the store holds for one pair
bookmarksFor(d, c) == { b \in bookmarks : b.documentId = d /\ b.chunkIndex = c }

\* C9: from a store with no bookmark for a pair, calls made one after the other
\* return added = true, then false, and so on in turn; once a call has returned the
\* store holds one bookmark for the pair after an odd number of calls, none after
\* an even number
C9_ToggleTwice ==
    \A d \in DocumentIds, c \in ChunkIndexes :
        LET mine == callsFor(d, c)
        IN  /\ \A k \in 1..Len(mine) :
                  mine[k].pc = "done" => mine[k].added = (k % 2 = 1)
            /\ AllReturned => Cardinality(bookmarksFor(d, c)) = Len(mine) % 2

\* a pair was toggled twice and the second call has returned
C9_Witness ==
    \E d \in DocumentIds, c \in ChunkIndexes :
        /\ Len(callsFor(d, c)) = 2
        /\ callsFor(d, c)[1].added
        /\ callsFor(d, c)[2].pc = "done"
        /\ ~callsFor(d, c)[2].added
        /\ bookmarksFor(d, c) = {}

\* the caller passed structuralChunking: false
structuralDisabled == options.has /\ ~options.structuralChunking

\* C10: with structural chunking disabled, or without a heading line, every chunk
\* has a null context
C10_FlatContextNull ==
    (/\ chunkedText
     /\ \/ structuralDisabled
        \/ ~hasHeadingLine(normalize(text.str)))
        => \A k \in 1..Len(chunks) : chunks[k].context = JSNull

\* structural chunking was disabled on a text with a heading line
C10_Witness ==
    /\ chunkedText
    /\ structuralDisabled
    /\ hasHeadingLine(normalize(text.str))
    /\ Len(chunks) >= 1

\* C11: with structural chunking disabled, a text with heading lines is chunked as
\* ordinary text: the chunk texts joined with single spaces are the input with its
\* whitespace runs collapsed, # markers and heading words included
C11_HeadingsKeptWhenFlat ==
    (/\ chunkedText
     /\ structuralDisabled
     /\ hasHeadingLine(normalize(text.str)))
        => Join(chunkTexts, <<" ">>) = collapsedInput

\* a text with two heading lines and content was chunked flat, markers kept
C11_Witness ==
    /\ chunkedText
    /\ structuralDisabled
    /\ Len(SelectSeq(Split(normalize(text.str), "\n"), isHeaderLine)) >= 2
    /\ Len(chunks) >= 1
    /\ chunks[1].text[1] = "#"
    /\ Len(wordsOf(Join(chunkTexts, <<" ">>))) >= 5

\* the positions, counted in words, at which the sentences of a sequence end
sentenceEndsOf(sents) ==
    runningTotals([j \in 1..Len(sents) |-> Len(Split(sents[j], " "))], 1, 0)

\* C14: splitIntoSentences puts a boundary right after word i exactly when word i
\* ends in '.', '!' or '?', is not a recognized abbreviation, and is the last word
\* or is followed by a word starting with A-Z; the words after the last boundary
\* are one final sentence; the sentences joined by single spaces are the input
C14_BoundaryIffRule ==
    pc = "split" =>
        LET words == Split(collapsedInput, " ")
            ends == sentenceEndsOf(sentences)
            ruled == { i \in 1..Len(words) :
                         /\ words[i][Len(words[i])] \in {".", "!", "?"}
                         /\ words[i] \notin Abbreviations
                         /\ \/ i = Len(words)
                            \/ words[i + 1][1] \in UpperCase }
        IN  /\ { ends[j] : j \in 1..Len(ends) } = ruled \cup {Len(words)}
            /\ Join(sentences, <<" ">>) = collapsedInput

\* the splitter ran on a text with a boundary inside, a word ending in '.' that is
\* no boundary, and trailing words after the last boundary
C14_Witness ==
    /\ pc = "split"
    /\ Len(sentences) >= 2
    /\ LET words == Split(collapsedInput, " ")
       IN  /\ words[Len(words)][Len(words[Len(words)])] \notin {".", "!", "?"}
           /\ \E i \in 1..(Len(words) - 1) :
                 /\ words[i][Len(words[i])] = "."
                 /\ words[i] \notin Abbreviations
                 /\ words[i + 1][1] \notin UpperCase

\* the sections the call chunked: those of chunkByStructure, or the whole text
callSections ==
    LET n == normalize(text.str)
    IN  IF n = <<>> THEN <<>>
        ELSE IF structuralChunking(options) /\ hasHeaders(n) THEN sectionsOf(n)
        ELSE <<[header |-> JSNull, content |-> n]>>

\* the positions, counted in words from the start of the call, at which the
\* sections, the sentences and the chunks of the call end
callSectionEnds ==
    LET sections == callSections
    IN  runningTotals([j \in 1..Len(sections) |->
                          Len(wordsOf(sections[j].content))], 1, 0)
callSentenceEnds ==
    LET sents == callSentences
    IN  runningTotals([j \in 1..Len(sents) |-> Len(wordsOf(sents[j]))], 1, 0)
callChunkEnds ==
    runningTotals([k \in 1..Len(chunks) |-> Len(wordsOf(chunks[k].text))], 1, 0)

\* the position at which element j of a sequence of ends starts
startOf(ends, j) == IF j = 1 THEN 1 ELSE ends[j - 1] + 1

\* C15: when two consecutive chunks lie in one section, the first is no piece of a
\* hard-split sentence and the second starts with a whole sentence of at most
\* MAX_WORDS words, that sentence would not have fit into the first chunk
C15_GreedyPacking ==
    chunkedText =>
        LET sents == callSentences
            sentEnds == callSentenceEnds
            chunkEnds == callChunkEnds
            sectionEnds == callSectionEnds
            words(ends, j) == ends[j] - startOf(ends, j) + 1
        IN  \A k \in 1..(Len(chunks) - 1), j \in 1..Len(sents) :
                (/\ startOf(sentEnds, j) = chunkEnds[k] + 1
                 /\ words(sentEnds, j) <= MAX_WORDS
                 /\ \A x \in 1..Len(sectionEnds) : sectionEnds[x] # chunkEnds[k]
                 /\ \A h \in 1..Len(sents) :
                       ~(/\ words(sentEnds, h) > MAX_WORDS
                         /\ startOf(sentEnds, h) <= startOf(chunkEnds, k)
                         /\ chunkEnds[k] <= sentEnds[h]))
                    => words(chunkEnds, k) + words(sentEnds, j) > MAX_WORDS

\* a chunk of several packed sentences was closed because the next sentence, of
\* at most MAX_WORDS words, did not fit
C15_Witness ==
    /\ chunkedText
    /\ LET sentEnds == callSentenceEnds
           chunkEnds == callChunkEnds
       IN  \E k \in 1..(Len(chunks) - 1), j \in 2..Len(sentEnds) :
               /\ sentEnds[j - 1] = chunkEnds[k]
               /\ sentEnds[j] - sentEnds[j - 1] <= MAX_WORDS
               /\ \E h \in 1..(j - 2) : sentEnds[h] >= startOf(chunkEnds, k)
               /\ \A h \in 1..Len(sentEnds) :
                     sentEnds[h] - startOf(sentEnds, h) + 1 <= MAX_WORDS

\* the largest element of a non-empty set of numbers
MaxOf(S) == CHOOSE x \in S : \A y \in S : y <= x

RECURSIVE ruledPieces(_, _, _)
\* the hard split as the rule states it, from word p of the sentence on: while
\* MAX_WORDS words are left, cut after the latest of the 41st to 50th of them that
\* ends in one of the suffixes, or after the 50th; the words left are the last piece
ruledPieces(words, p, suffixes) ==
    IF p > Len(words) THEN <<>>
    ELSE IF Len(words) - p + 1 < MAX_WORDS
         THEN <<Join(SubSeq(words, p, Len(words)), <<" ">>)>>
    ELSE LET marked == { i \in (p + MAX_WORDS - LOOK_BACK)..(p + MAX_WORDS - 1) :
                            \E suffix \in suffixes : EndsWith(words[i], suffix) }
             cut == IF marked = {} THEN p + MAX_WORDS - 1 ELSE MaxOf(marked)
         IN  <<Join(SubSeq(words, p, cut), <<" ">>)>>
             \o ruledPieces(words, cut + 1, suffixes)

\* the chunks from chunk k on are the pieces, each but the last of 41 to 50 words
piecesAt(k, pieces) ==
    /\ k + Len(pieces) - 1 <= Len(chunks)
    /\ SubSeq(chunkTexts, k, k + Len(pieces) - 1) = pieces
    /\ \A x \in k..(k + Len(pieces) - 2) :
          /\ Len(wordsOf(chunks[x].text)) >= MAX_WORDS - LOOK_BACK + 1
          /\ Len(wordsOf(chunks[x].text)) <= MAX_WORDS

\* every sentence of the call of more than MAX_WORDS words that passes the test
\* was split into the pieces the rule with these suffixes gives, and the pieces
\* joined by single spaces are the sentence
hardSplitByRule(suffixes, Concerned(_)) ==
    LET sents == callSentences
        sentEnds == callSentenceEnds
        chunkEnds == callChunkEnds
    IN  \A h \in 1..Len(sents) :
            (Len(wordsOf(sents[h])) > MAX_WORDS /\ Concerned(Split(sents[h], " "))) =>
                LET pieces == ruledPieces(Split(sents[h], " "), 1, suffixes)
                IN  /\ Join(pieces, <<" ">>) = sents[h]
                    /\ \E k \in 1..Len(chunks) :
                          /\ startOf(chunkEnds, k) = startOf(sentEnds, h)
                          /\ piecesAt(k, pieces)

\* C16: a sentence of more than MAX_WORDS words is cut, each time MAX_WORDS words
\* have accumulated, after the latest of the 41st to 50th accumulated words that
\* ends in ',', ';', ':' or '-', or after the 50th if none does; the rest carries
\* over; every piece but the last has 41 to 50 words and the pieces joined by
\* single spaces are the sentence
C16_HardSplitRule ==
    chunkedText =>
        hardSplitByRule({ <<",">>, <<";">>, <<":">>, <<"-">> }, LAMBDA words : TRUE)

\* C17: a word ending in the em-dash U+2014 among the last LOOK_BACK of the
\* MAX_WORDS accumulated words is a cut point just as a word ending in a comma is
C17_EmDashIsCutPoint ==
    chunkedText =>
        hardSplitByRule({ <<",">>, <<";">>, <<":">>, <<"-">>, <<"U+2014">> },
                        LAMBDA words :
                            /\ \E i \in 1..Len(words) : EndsWith(words[i], <<"U+2014">>)
                            /\ \A i \in 1..Len(words) :
                                  ~EndsWith(words[i], <<"U+00E2", "U+20AC", "U+201D">>))

\* C18: a sentence of more than MAX_WORDS words starts a chunk and ends a chunk:
\* its pieces share no chunk with the sentence before it or the sentence after it
C18_HardSplitAlone ==
    chunkedText =>
        LET sentEnds == callSentenceEnds
            chunkEnds == callChunkEnds
            boundaries == { chunkEnds[k] : k \in 1..Len(chunkEnds) } \cup {0}
        IN  \A h \in 1..Len(sentEnds) :
                sentEnds[h] - startOf(sentEnds, h) + 1 > MAX_WORDS =>
                    /\ startOf(sentEnds, h) - 1 \in boundaries
                    /\ sentEnds[h] \in boundaries

\* a hard-split sentence whose last piece would fit into one chunk with the
\* sentence that follows it
C18_Witness ==
    /\ chunkedText
    /\ LET sentEnds == callSentenceEnds
           chunkEnds == callChunkEnds
       IN  \E h \in 1..Len(sentEnds), k \in 2..Len(chunkEnds) :
               /\ sentEnds[h] - startOf(sentEnds, h) + 1 > MAX_WORDS
               /\ chunkEnds[k] = sentEnds[h]
               /\ h < Len(sentEnds)
               /\ startOf(chunkEnds, k) > startOf(sentEnds, h)
               /\ sentEnds[h + 1] - chunkEnds[k - 1] <= MAX_WORDS

RECURSIVE sourceGroups(_, _, _)
\* the words of the source, grouped by the heading lines between them: one group
\* for each maximal run of lines that are not heading lines
sourceGroups(lines, i, current) ==
    IF i > Len(lines) THEN <<current>>
    ELSE IF isHeaderLine(lines[i]) THEN <<current>> \o sourceGroups(lines, i + 1, <<>>)
    ELSE sourceGroups(lines, i + 1, current \o wordsOf(lines[i]))

RECURSIVE Concat(_, _)
\* the elements of a sequence of sequences from index i on, one after the other
Concat(a, i) == IF i > Len(a) THEN <<>> ELSE a[i] \o Concat(a, i + 1)

\* C19: in structural mode every place where a heading line separates two runs of
\* content is a chunk boundary, the words of the chunks are the words of the
\* non-heading lines in source order, and each chunk text is its words joined by
\* single spaces, so that the chunks of a section joined give its collapsed content
C19_SectionsKeptApart ==
    (/\ chunkedText
     /\ structuralChunking(options)
     /\ hasHeadingLine(normalize(text.str)))
        => LET groups == sourceGroups(Split(normalize(text.str), "\n"), 1, <<>>)
               groupEnds == runningTotals([g \in 1..Len(groups) |-> Len(groups[g])], 1, 0)
               chunkWords == [k \in 1..Len(chunks) |-> wordsOf(chunks[k].text)]
               chunkEnds == callChunkEnds
           IN  /\ Concat(chunkWords, 1) = Concat(groups, 1)
               /\ \A g \in 1..Len(groups) :
                     groupEnds[g] \in { chunkEnds[k] : k \in 1..Len(chunkEnds) } \cup {0}
               /\ \A k \in 1..Len(chunks) :
                     chunks[k].text = Join(chunkWords[k], <<" ">>)

\* two consecutive chunks of different sections that would have fit into one
C19_Witness ==
    /\ chunkedText
    /\ structuralChunking(options)
    /\ \E k \in 1..(Len(chunks) - 1) :
          /\ chunks[k].context # chunks[k + 1].context
          /\ Len(wordsOf(chunks[k].text)) + Len(wordsOf(chunks[k + 1].text)) <= MAX_WORDS

\* getChunkStats ran on a non-empty array
statsOfChunks == pc = "stats" /\ statsArg.type = "object" /\ statsArg.items # <<>>

\* C20: for a non-empty chunk array getChunkStats reports its length, the sum, the
\* smallest and the largest of the chunks' word counts, and as avgWords the
\* integer nearest to totalWords / totalChunks (a half rounds up), which lies
\* between minWords and maxWords
C20_StatsOfChunks ==
    statsOfChunks =>
        LET n == Len(statsArg.items)
            counts == [k \in 1..n |-> Len(wordsOf(statsArg.items[k].text))]
            total == runningTotals(counts, 1, 0)[n]
        IN  /\ stats.totalChunks = n
            /\ stats.totalWords = total
            /\ \E k \in 1..n : stats.minWords = counts[k]
            /\ \A k \in 1..n : stats.minWords <= counts[k]
            /\ \E k \in 1..n : stats.maxWords = counts[k]
            /\ \A k \in 1..n : stats.maxWords >= counts[k]
            /\ 2 * n * stats.avgWords - 2 * total <= n
            /\ 2 * total - 2 * n * stats.avgWords < n
            /\ stats.minWords <= stats.avgWords
            /\ stats.avgWords <= stats.maxWords

\* the statistics of several chunks whose mean is no integer and rounds up
C20_Witness ==
    /\ statsOfChunks
    /\ stats.totalChunks >= 2
    /\ stats.minWords < stats.maxWords
    /\ stats.avgWords * stats.totalChunks > stats.totalWords

\* the chunks chunkText makes of the text extracted from each readable file
chunksOfFile ==
    [f \in ImportFiles |-> IF f.readable THEN importChunks(extractedText(f)) ELSE <<>>]

\* the files of ImportFiles that pass validation, can be read, give a text
\* that is not blank and at least one chunk
importable ==
    { f \in ImportFiles :
         /\ getFileType(f.name) # "unknown"
         /\ f.size <= maxSize
         /\ f.readable
         /\ Trim(extractedText(f)) # <<>>
         /\ Len(chunksOfFile[f]) >= 1 }

\* C12: an import saves a document only for a file that passed validation, whose
\* extraction returned a text that is not blank and whose text gave at least one
\* chunk; an import of any other file saves nothing and, once it has ended, has
\* shown exactly one message, an error; every stored document comes from such a
\* save and has at least one chunk
C12_ImportSavesOnlyGoodFiles ==
    /\ \A k \in 1..Len(imports) :
          LET call == imports[k]
          IN  /\ call.saved => call.file \in importable
              /\ call.pc = "save" => call.file \in importable
              /\ call.file \notin importable =>
                    /\ ~call.saved
                    /\ \A d \in documents : d.name = call.file.name =>
                          \E j \in 1..Len(imports) : j # k /\ imports[j].id = d.id
                    /\ Len(call.shown) <= 1
                    /\ call.pc = "done" =>
                          Len(call.shown) = 1 /\ call.shown[1].type = "error"
              /\ call.file \in importable /\ call.pc = "done" =>
                    /\ call.saved
                    /\ Len(call.shown) = 1
                    /\ call.shown[1].type = "success"
    /\ \A d \in documents :
          /\ Len(d.chunks) >= 1
          /\ d.totalChunks = Len(d.chunks)
          /\ \E k \in 1..Len(imports) :
                /\ imports[k].saved
                /\ imports[k].id = d.id
                /\ imports[k].file.name = d.name
                /\ d.chunks = chunksOfFile[imports[k].file]

\* one import has saved its document and the import of a file with a heading
\* and nothing under it has ended on the message about chunks
C12_Witness ==
    \E k, j \in 1..Len(imports) :
       /\ imports[k].saved
       /\ \E d \in documents : d.id = imports[k].id
       /\ imports[j].pc = "done"
       /\ ~imports[j].saved
       /\ validateFile(imports[j].file).valid
       /\ Trim(extractedText(imports[j].file)) # <<>>
       /\ imports[j].shown =
             <<errorToast("Could not create any readable chunks from the file")>>

\* C13: no step of the application changes the chunks of a stored document: a
\* record of the documents store stays as it is or is deleted, and a record that
\* is new has an id that was never handed out before
C13_StoredChunksNeverChange ==
    [][ /\ \A d \in documents : \A e \in documents' :
              e.id = d.id => e.chunks = d.chunks /\ e = d
        /\ \A e \in documents' :
              e \notin documents => e.id > nextId /\ nextId' >= e.id ]_vars

\* a stored document of several chunks that was opened and bookmarked, its
\* progress saved, while a document imported after it was saved and then deleted
C13_Witness ==
    \E d \in documents :
       /\ Len(d.chunks) >= 2
       /\ \E b \in bookmarks : b.documentId = d.id
       /\ \E p \in progress : p.documentId = d.id
       /\ \E k \in 1..Len(imports) : imports[k].saved /\ imports[k].id > d.id
       /\ \E k \in 1..Len(deletions) : deletions[k].pc = "done" /\ deletions[k].id # d.id

\* the five statistics
StatisticNames == {"totalChunks", "totalWords", "avgWords", "minWords", "maxWords"}

\* C21: getChunkStats returns the same five statistics for every input, and for
\* the empty array, null or nothing each of the five, total words included, is 0
C21_FiveStatisticsAlways ==
    pc = "stats" =>
        /\ DOMAIN stats = StatisticNames
        /\ (statsArg.type \in {"undefined", "null"} \/ statsArg.items = <<>>) =>
              \A name \in StatisticNames : stats[name] = 0

\* the heading line i of the lines has content: a line after it and before the
\* next heading line holds a word
headingHasContent(lines, i) ==
    \E j \in (i + 1)..Len(lines) :
        /\ wordsOf(lines[j]) # <<>>
        /\ \A h \in (i + 1)..j : ~isHeaderLine(lines[h])

\* the heading lines of the lines that have no content
emptyHeadings(lines) ==
    { i \in 1..Len(lines) : isHeaderLine(lines[i]) /\ ~headingHasContent(lines, i) }

\* C29: in structural mode a heading without content gives no chunk: every chunk
\* has a word, every context is null or the text of a heading that has content,
\* the words of the chunks are the words of the lines that are not heading
\* lines, and a text whose headings all lack content and that has no content
\* before them gives no chunk at all
C29_EmptyHeadingGivesNothing ==
    (/\ chunkedText
     /\ structuralChunking(options)
     /\ hasHeadingLine(normalize(text.str)))
        => LET lines == Split(normalize(text.str), "\n")
               content == Concat(sourceGroups(lines, 1, <<>>), 1)
           IN  /\ \A k \in 1..Len(chunks) :
                     /\ wordsOf(chunks[k].text) # <<>>
                     /\ \/ chunks[k].context = JSNull
                        \/ \E i \in 1..Len(lines) :
                              /\ isHeaderLine(lines[i])
                              /\ headingHasContent(lines, i)
                              /\ chunks[k].context = JSStr(headingOf(lines[i]))
               /\ Concat([k \in 1..Len(chunks) |-> wordsOf(chunks[k].text)], 1) = content
               /\ content = <<>> => chunks = <<>>

\* a heading directly followed by another heading whose section gave a chunk
C29_Witness ==
    /\ chunkedText
    /\ structuralChunking(options)
    /\ LET lines == Split(normalize(text.str), "\n")
       IN  \E i \in emptyHeadings(lines) :
              /\ i < Len(lines)
              /\ isHeaderLine(lines[i + 1])
              /\ headingHasContent(lines, i + 1)
              /\ headingOf(lines[i]) # headingOf(lines[i + 1])
    /\ chunks # <<>>

\* C24: whatever the interleaving of the toggleBookmark calls, the store holds
\* at most one bookmark for a pair of document and chunk index
C24_OneBookmarkPerPair ==
    \A a, b \in bookmarks :
        a.documentId = b.documentId /\ a.chunkIndex = b.chunkIndex => a = b

\* the characters of s that are neither whitespace nor the heading marker
inkOf(s) == SelectSeq(s, LAMBDA ch : ch \notin WhiteSpace \cup {"#"})

\* the texts of the first n items, one after the other
itemTexts(n) == Flatten([k \in 1..n |-> pdf.allItems[k].text])

\* the two ways a completed line can be emitted
asMarker(line) == <<"\n", "\n", "#", " ">> \o Trim(line) \o <<"\n", "\n">>
asEmitted(line) == IF line = <<>> THEN {<<>>} ELSE {line, asMarker(line)}

\* the distance between the vertical positions of two items
yGap(a, b) == IF a.y >= b.y THEN a.y - b.y ELSE b.y - a.y

\* what C22 says of the loop iteration that takes the item `item` after `prev`
reassembledItem(prev, item) ==
    IF pdf.pos > 0 /\ item.pageNum = prev.pageNum /\ yGap(item, prev) <= 5
    THEN /\ pdf'.currentLine = pdf.currentLine \o item.text
         /\ pdf'.fullText = pdf.fullText
    ELSE /\ pdf'.currentLine = item.text
         /\ \E line \in asEmitted(pdf.currentLine) :
               pdf'.fullText = pdf.fullText \o line \o
                  (IF pdf.pos = 0 \/ item.pageNum # prev.pageNum THEN <<"\n", "\n">>
                   ELSE IF yGap(item, prev) <= 15 THEN <<" ">>
                   ELSE <<"\n", "\n">>)

\* C22: an item on the page of the item before it and at most 5 away from it joins
\* the current line; more than 5 away it ends the line and begins a new one, after
\* a space if at most 15 away and after two newlines otherwise; an item on another
\* page ends the line and begins a new one after two newlines, wherever it is; the
\* last line is flushed at the end, and at every moment the text built so far holds
\* the texts of the items taken so far, once each and in order
C22_LinesReassembled ==
    [][ /\ pdf'.pos = pdf.pos + 1 =>
              reassembledItem(pdf.allItems[IF pdf.pos = 0 THEN 1 ELSE pdf.pos],
                              pdf.allItems[pdf.pos + 1])
        /\ pdf'.pc = "done" =>
              /\ pdf'.fullText \in { pdf.fullText \o line : line \in asEmitted(pdf.currentLine) }
              /\ pdf'.currentLine = <<>>
              /\ inkOf(pdf'.result) = inkOf(itemTexts(Len(pdf.allItems)))
        /\ inkOf(pdf'.fullText \o pdf'.currentLine) = inkOf(itemTexts(pdf'.pos))
      ]_vars

\* C22 witness: a file of three items was read to the end: the second item is on
\* the page of the first and between 5 and 15 away, the third is on the next page
\* at the height of the second
C22_Witness ==
    /\ pdf.pc = "done"
    /\ Len(pdf.allItems) = 3
    /\ pdf.allItems[2].pageNum = pdf.allItems[1].pageNum
    /\ yGap(pdf.allItems[2], pdf.allItems[1]) > 5
    /\ yGap(pdf.allItems[2], pdf.allItems[1]) <= 15
    /\ pdf.allItems[3].pageNum # pdf.allItems[2].pageNum
    /\ pdf.allItems[3].y = pdf.allItems[2].y
    /\ inkOf(pdf.result) = inkOf(itemTexts(3))

\* the largest height among the items of a line
largestHeight(items) ==
    CHOOSE h \in {items[k].height : k \in 1..Len(items)} :
        \A k \in 1..Len(items) : h >= items[k].height

\* the largest height of the line made of `items` is strictly greater than 1.2
\* times the mean height of all items, in exact numbers: 5 * height > 6 * mean,
\* the mean being the sum over the number
higherThanThreshold(items, all) ==
    LET h == largestHeight(items)
        total == Sum([k \in 1..Len(all) |-> all[k].height])
    IN  5 * h * Len(all) > 6 * total

\* the line is to be a heading
headingExpected(line, items, all) ==
    \/ higherThanThreshold(items, all) /\ Len(wordsOf(line)) <= 8
    \/ detectHeadingPattern(line)

\* C23: a completed line is emitted as a heading marker exactly if its largest item
\* height is strictly greater than 1.2 times the mean height of all items and it
\* has at most 8 words, or it matches a heading pattern; every other line is
\* emitted as it is
C23_HeadingDecision ==
    [][ (pdf.currentLine # <<>> /\ pdf'.fullText # pdf.fullText) =>
            \E sep \in { <<>>, <<" ">>, <<"\n", "\n">> } :
                pdf'.fullText = pdf.fullText
                    \o (IF headingExpected(pdf.currentLine, pdf.currentLineItems, pdf.allItems)
                        THEN asMarker(pdf.currentLine)
                        ELSE pdf.currentLine)
                    \o sep
      ]_vars

\* C25: while the reader shows a document with at least one chunk, the current
\* index is at least 0 and at most the number of chunks minus one
C25_IndexWithinBounds ==
    (reader.view = "reader" /\ Len(reader.document.chunks) >= 1) =>
        /\ reader.currentIndex >= 0
        /\ reader.currentIndex <= Len(reader.document.chunks) - 1

\* no read of the bookmarks index and no toggleBookmark call is pending
bookmarkCallsSettled == lookups = <<>> /\ AllReturned

\* C26: once the pending lookups and toggles have completed, the reader's
\* indicator isBookmarked is true exactly if the store holds a bookmark for the
\* document and the chunk shown (no document is being deleted)
C26_IndicatorMatchesStore ==
    (reader.view = "reader" /\ bookmarkCallsSettled /\ deletions = <<>>) =>
        reader.isBookmarked = isChunkBookmarked(reader.document.id, reader.currentIndex)

\* the reader shows another chunk than before the step: it has mounted, or its
\* index or its document has changed
shownChanges ==
    /\ reader'.view = "reader"
    /\ \/ reader.view # "reader"
       \/ reader'.currentIndex # reader.currentIndex
       \/ reader'.document # reader.document

\* the progress record stored for a document, as a set
progressOf(documentId) == { p \in progress : p.documentId = documentId }

\* C27: every change of the reader's index calls saveProgress for the document
\* open with the new index; the progress store never holds two records of one
\* document; and when no save is pending the record of the document open holds
\* the index of the chunk shown
C27_ProgressFollowsReader ==
    /\ [][shownChanges =>
             saves' = Append(saves, [documentId |-> reader'.document.id,
                                     currentIndex |-> reader'.currentIndex])]_vars
    /\ [](\A p, q \in progress : p.documentId = q.documentId => p = q)
    /\ []((reader.view = "reader" /\ saves = <<>>) =>
             progressOf(reader.document.id) =
                { [documentId |-> reader.document.id, currentIndex |-> reader.currentIndex] })

\* the deleteDocument call k completes in this step
deleteCompletes(k) == deletions[k].pc # "done" /\ deletions'[k].pc = "done"

\* the records of the three stores that belong to the documents other than id
recordsOfOthers(id, docs, marks, prog) ==
    <<{ d \in docs : d.id # id }, { b \in marks : b.documentId # id },
      { p \in prog : p.documentId # id }>>

\* C28: when deleteDocument(id) completes, the store holds no document with that
\* id, no bookmark of it and no progress record of it, and no step of the call
\* changes a record of another document
C28_DeleteRemovesAll ==
    [][ \A k \in 1..Len(deletions') :
          /\ (k <= Len(deletions) /\ deleteCompletes(k)) =>
                /\ \A d \in documents' : d.id # deletions[k].id
                /\ \A b \in bookmarks' : b.documentId # deletions[k].id
                /\ \A p \in progress' : p.documentId # deletions[k].id
          /\ (k > Len(deletions) \/ deletions'[k] # deletions[k]) =>
                recordsOfOthers(deletions'[k].id, documents', bookmarks', progress')
                   = recordsOfOthers(deletions'[k].id, documents, bookmarks, progress)
      ]_vars

====
